---- MODULE Spec2Model ----
(***************************************************************************)
(* Model of the shopify-processor sync pipeline.                           *)
(*                                                                         *)
(* Part 1 (specification Spec): the queue-based product sync of            *)
(* services/sync-queue.ts (src/unnamed/part_015): queueProductSync, the    *)
(* product-sync worker, the process-product-batch worker, the batch        *)
(* completed/failed event handlers, cleanupStuckSyncJobs and the           *)
(* /fix-stuck-syncs route, all acting on one SyncState document            *)
(* (models/sync-state.ts) and one Product collection.                      *)
(*                                                                         *)
(* Every handler works on the copy of the SyncState document it loaded     *)
(* with findById/findOne and writes it back with save().  save() is        *)
(* modelled as Mongoose documents it:                                      *)
(*   - only modified paths are written; a scalar path set to a value equal *)
(*     to the loaded one is not modified;                                  *)
(*   - lastSyncStats.batchJobs is Schema.Types.Mixed (sync-state.ts:71):   *)
(*     it is written only when the path was assigned in this document      *)
(*     instance; a change made in place (batchJobs.completed += 1) is not  *)
(*     detected and is not written;                                        *)
(*   - errors.push(..) is sent as $push (appended to what the database     *)
(*     holds) and increments the version key __v;                          *)
(*   - an array that is assigned or spliced (existingProductIds) is sent   *)
(*     as $set of the whole array guarded by __v: when __v has moved since *)
(*     the load, save() throws VersionError.                               *)
(* BullMQ is taken as given: a job is run at most `attempts` times, the    *)
(* queue event "completed" is emitted when an attempt returns, "failed"    *)
(* when the last attempt threw.                                            *)
(*                                                                         *)
(* Part 2 (specification SpecConn): one run of the connector fetchData of  *)
(* back-end/src/connectors/sources/shopify.ts: the pages of product ids,   *)
(* the detail batches with their failures, the early stops and the         *)
(* soft-delete cleanup of a full sync.                                     *)
(*                                                                         *)
(* Part 3 (specification SpecDate): formatShopifyDate of                   *)
(* back-end/src/utils/dateConverter.ts applied to a date.  A Date is its   *)
(* number of milliseconds since the epoch; a date string is the record of  *)
(* its date-time part (in seconds), its milliseconds if written, and its   *)
(* UTC offset.                                                             *)
(*                                                                         *)
(* Part 4 (specification SpecRuns): several runs of fetchData and the      *)
(* batch worker writing the Product documents of one store at the same     *)
(* time, at the grain of their database calls: findOne, updateOne with     *)
(* upsert, updateMany of the cleanup, and ProductModel.create with the     *)
(* pre-save hook of the Product schema (models/Checkpoint.ts).             *)
(*                                                                         *)
(* Specification SpecGuard: the runs of fetchData of Part 2 for a small    *)
(* store whose id generator yields more pages than the failsafe allows.    *)
(*                                                                         *)
(* Part 5 (specification SpecJob): IntegrationJobWorker.process of         *)
(* src/workers/IntegrationJobWorker.ts: the JobState document, the run of  *)
(* fetchData it awaits, the post-processing cleanupDeletedProducts of      *)
(* back-end/src/services/ProductStorage.ts and the COMPLETED / FAILED      *)
(* update of the job.                                                      *)
(*                                                                         *)
(* Part 6 (specification SpecExec): the JobExecution documents of          *)
(* IntegrationJobService (src/unnamed/part_006): createExecution, the      *)
(* worker's processExecution and cancelExecution, with the queue of        *)
(* execution jobs.                                                         *)
(*                                                                         *)
(* Part 7 (specification SpecCheckpoint): ProductStorage.saveCheckpoint    *)
(* and the Checkpoint collection.                                          *)
(*                                                                         *)
(* Part 8 (specification SpecGen): getProductIdsGenerator of the Shopify   *)
(* client (src/unnamed/part_007): its requests with their cursor, the      *)
(* batches of ids it yields and its end.                                   *)
(*                                                                         *)
(* Specification SpecRetry: the product-sync worker of Part 1 for a shop   *)
(* whose getProductIds throws, at the grain of the attempt: its first save *)
(* (isInProgress = true) and its catch block are separate steps.           *)
(*                                                                         *)
(* Part 9 (specification SpecPrune): the JobState collection of            *)
(* IntegrationJobProcessor (src/queues/IntegrationJobProcessor.ts):        *)
(* createIncrementalJob, the end of a job and pruneOldJobs, day by day.    *)
(*                                                                         *)
(* Part 10 (specification SpecWatermark): successive runs of the           *)
(* queue-based sync while the products of the shop are modified: the       *)
(* lower bound of the enumeration, the versions fetched and lastSyncedAt.  *)
(*                                                                         *)
(* Part 11 (specification SpecTracker): one job of JobTracker              *)
(* (src/services/job-tracker.ts) and its tasks in the "product-processing" *)
(* queue (src/services/queue.ts, src/workers/product-worker.ts), every     *)
(* updateProductStatus call in two steps, findOne and save.                *)
(***************************************************************************)
EXTENDS Integers, Sequences, FiniteSets, TLC

\* ---------------------------------------------------------------- bounds
MaxProduct == 2          \* product ids are 1..MaxProduct
MaxCalls == 3            \* queueProductSync invocations explored
MaxTime == 3             \* clock ticks explored
MaxBatchJobs == 2        \* batch jobs the explored invocations can add in all
MaxPages == 2            \* pages the product id generator yields
MaxPageLen == 2          \* product ids in a page
MaxSeconds == 20         \* the dates formatted lie in the seconds 0..MaxSeconds
MaxRuns == 2             \* fetchData runs that write the store at the same time
MaxExecutions == 2       \* executions created by createExecution
MaxCheckpoints == 3      \* calls of saveCheckpoint
MaxGuardPages == 3       \* pages of the runs that meet the failsafe of fetchData
MaxGenPages == 3         \* pages the Shopify API holds for getProductIdsGenerator
MaxCursor == 2           \* the cursors of pageInfo.endCursor are 1..MaxCursor or null
MaxJobStates == 3        \* JobState documents created
MaxDays == 3             \* days the JobState collection is followed
MaxTasks == 2            \* product tasks of the job of the job tracker

\* ------------------------------------------------------- program constants
Attempts == 3            \* defaultJobOptions.attempts
BatchConcurrency == 5    \* batchWorker concurrency
StaleMinutes == 60       \* staleThreshold of queueProductSync / cleanupStuckSyncJobs
FixStuckMinutes == 30    \* timeout of POST /fix-stuck-syncs
EstimatedMaxProducts == 3000  \* config.estimatedMaxProducts || 3000
EdtOffsetHours == 4      \* the fixed offset "-04:00" of formatShopifyDate

\* ------------------------------------------------------ model parameters
TickMinutes == FixStuckMinutes + 1        \* length of one clock tick: one tick exceeds the
                         \* /fix-stuck-syncs timeout, two exceed the stale threshold
BatchSize == 1           \* options.batchSize of the requests of the model

ProductIds == 1..MaxProduct
Null == 0                \* null / undefined Date

VARIABLES
  now,                \* wall clock, in ticks (Date.now())
  shop,               \* the Shopify store: its catalog and which calls fail
  syncState,          \* the SyncState document of the store in MongoDB, or NoDoc
  products,           \* productIds of the Product documents of the store
  syncQueue,          \* jobs of the "product-sync" queue
  productBatchQueue,  \* jobs of the "process-product-batch" queue, with the
                      \* state of their worker attempt and of their event handler
  syncWorker,         \* the running product-sync job attempt (concurrency 1)
  calls,              \* the queueProductSync invocations so far
  config,             \* connector: syncContext.getConfig()
  api,                \* connector: what the Shopify API returns to this run
  store,              \* connector: the Product documents of the storeId
  run,                \* connector: the local variables of fetchData
  date,               \* date converter: the Date passed to formatShopifyDate
  shopifyFormat,      \* date converter: the string it returned, if it has
  runs,               \* concurrent writers: the fetchData runs on one store
  jobWorker,          \* job worker: the JobState document and the position of
                      \* IntegrationJobWorker.process
  executions,         \* job service: the JobExecution documents, their queue
                      \* jobs and the calls that act on them
  checkpoints,        \* product storage: the Checkpoint documents and the call
                      \* of saveCheckpoint
  generator,          \* Shopify API: a getProductIdsGenerator and its consumer
  jobStates,          \* job processor: the JobState collection
  tracker,            \* job tracker: the Job document, its product tasks and
                      \* the updateProductStatus calls in flight
  upstream            \* watermark: the updated_at of the products in Shopify and
                      \* the incremental runs of the store

queueVars == <<now, shop, syncState, products, syncQueue, productBatchQueue,
               syncWorker, calls>>
connVars == <<config, api, store, run>>
dateVars == <<date, shopifyFormat>>
vars == <<queueVars, connVars, dateVars, runs, jobWorker, executions, checkpoints,
         generator, jobStates, tracker, upstream>>

\* ------------------------------------------------------------- documents
NoDoc == [exists |-> FALSE]
NoError == [kind |-> "none", n |-> 0]

\* lastSyncStats.batchJobs, array format ([] is the schema default)
BatchJobsArray == [kind |-> "array", total |-> 0, completed |-> 0, failed |-> 0,
                   pending |-> 0, ids |-> {}]

\* lastSyncStats.batchJobs, object format
BatchJobsObject(total, completed, failed, pending, ids) ==
  [kind |-> "object", total |-> total, completed |-> completed,
   failed |-> failed, pending |-> pending, ids |-> ids]

IsObjectFormat(bj) == bj.kind = "object"

\* new SyncStateModel({storeId, syncType, totalSyncs: 0, lastSyncStats: {}})
\* with the schema defaults
NewSyncState ==
  [exists |-> TRUE, v |-> 0,
   isInProgress |-> FALSE, lastSyncedAt |-> Null, lastSyncError |-> NoError,
   totalSyncs |-> 0, totalProductsProcessed |-> 0, totalProductsCreated |-> 0,
   totalProductsUpdated |-> 0, totalProductsDeleted |-> 0,
   startedAt |-> Null, completedAt |-> Null, totalProductsToProcess |-> 0,
   existingProductIds |-> {}, productsProcessed |-> 0, productsCreated |-> 0,
   productsUpdated |-> 0, productsDeleted |-> 0,
   batchJobs |-> BatchJobsArray, errors |-> <<>>]

\* the paths of the schema that hold a scalar (Boolean, Number, Date, String)
ScalarPaths ==
  {"isInProgress", "lastSyncedAt", "lastSyncError", "totalSyncs",
   "totalProductsProcessed", "totalProductsCreated", "totalProductsUpdated",
   "totalProductsDeleted", "startedAt", "completedAt", "totalProductsToProcess",
   "productsProcessed", "productsCreated", "productsUpdated", "productsDeleted"}

\* document.save(): does the update carry the __v guard, and does it match?
VersionConflict(db, loaded, local) ==
  /\ local.existingProductIds # loaded.existingProductIds
  /\ db.v # loaded.v

\* document.save(): the document in the database after a successful save of
\* `local`, which was loaded as `loaded`.  bjAssigned: lastSyncStats.batchJobs
\* was assigned in this instance; pushCalled/pushed: errors.push(...pushed).
Save(db, loaded, local, bjAssigned, pushCalled, pushed) ==
  LET arraySet == local.existingProductIds # loaded.existingProductIds
  IN [p \in DOMAIN db |->
        IF p \in ScalarPaths
          THEN (IF local[p] # loaded[p] THEN local[p] ELSE db[p])
        ELSE IF p = "batchJobs"
          THEN (IF bjAssigned THEN local.batchJobs ELSE db.batchJobs)
        ELSE IF p = "existingProductIds"
          THEN (IF arraySet THEN local.existingProductIds ELSE db.existingProductIds)
        ELSE IF p = "errors"
          THEN db.errors \o pushed
        ELSE IF p = "v"
          THEN (IF arraySet \/ pushCalled THEN db.v + 1 ELSE db.v)
        ELSE db[p]]

\* ------------------------------------------------------------------ time
\* Date.now() - startedAt.getTime(), in minutes
ElapsedMinutes(startedAt) == (now - startedAt) * TickMinutes

\* queueProductSync: Date.now() - startedAt > staleThreshold
IsStale(doc) ==
  /\ doc.startedAt # Null
  /\ ElapsedMinutes(doc.startedAt) > StaleMinutes

\* resetIncompleteJobs: startedAt.getTime() === completedAt.getTime().
\* startedAt is written by queueProductSync before the job is added to the
\* queue; every completedAt is written by a worker or handler that runs after
\* that job was fetched, so the two millisecond timestamps never coincide
\* although they may lie in the same clock tick of the model.
SameMillisecond(startedAt, completedAt) == FALSE

\* resetIncompleteJobs, applied to the one SyncState document
resetIncompleteJobs(db) ==
  IF /\ db.exists /\ db.isInProgress /\ db.startedAt # Null
     /\ db.completedAt # Null
     /\ SameMillisecond(db.startedAt, db.completedAt)
    THEN [db EXCEPT !.isInProgress = FALSE,
                    !.lastSyncError = [kind |-> "stuck", n |-> 0]]
    ELSE db

\* Date.prototype.toISOString: "YYYY-MM-DDTHH:mm:ss.sssZ", the date-time of
\* the instant in UTC, its milliseconds, and the offset Z
toISOString(d) ==
  [dateTime |-> d \div 1000, ms |-> {d % 1000}, offsetMinutes |-> 0]

\* ---------------------------------------------------------------- queues
RECURSIVE SortedSeq(_)
SortedSeq(S) ==
  IF S = {} THEN <<>>
  ELSE LET m == CHOOSE x \in S : \A y \in S : x <= y
       IN <<m>> \o SortedSeq(S \ {m})

Range(s) == {s[i] : i \in DOMAIN s}

\* productIds.slice(i, i + batchSize) for i = 0, batchSize, 2*batchSize, ...
RECURSIVE Batches(_, _)
Batches(ids, size) ==
  IF Len(ids) = 0 THEN <<>>
  ELSE IF Len(ids) <= size THEN <<ids>>
  ELSE <<SubSeq(ids, 1, size)>> \o Batches(SubSeq(ids, size + 1, Len(ids)), size)

\* batchCount = Math.ceil(productIds.length / batchSize)
BatchCount(catalog) == Len(Batches(SortedSeq(catalog), BatchSize))

\* incrementalFilters = {}: no updatedAtMin.  An optional string is the set of
\* at most one string.
NoFilters == [updatedAtMin |-> {}]

IdleSyncWorker == [pc |-> "idle", job |-> 0, doc |-> NoDoc, batchIds |-> {},
                   incrementalFilters |-> NoFilters]

\* ------------------------------------------- connector state (see Part 2)
\* a productId without a Product document
NoProduct == [exists |-> FALSE, deleted_at |-> Null, last_action |-> "NONE",
              first_seen_at |-> Null]

\* the connector is not running
IdleConfig == [isFullSync |-> FALSE, skipCleanup |-> FALSE, maxProducts |-> 0,
               estimatedMaxProducts |-> 0, detailBatchSize |-> 0,
               purgeDeletedAfterDays |-> 0]
IdleApi == [pages |-> <<>>, fault |-> [p \in ProductIds |-> "none"],
            updateManyFails |-> FALSE]
EmptyStore == [p \in ProductIds |-> NoProduct]
\* no fetchData run writes the store
NoRuns == [r \in 1..MaxRuns |->
             [pc |-> "none", isFullSync |-> FALSE, productId |-> 0,
              existingProduct |-> NoProduct, processedProductIds |-> {}]]

IdleRun == [pc |-> "none", page |-> 0, productIdsToProcess |-> <<>>,
            processedProductIds |-> <<>>, processedIdSet |-> {},
            totalFetched |-> 0, created |-> 0, updated |-> 0, failed |-> 0,
            duplicateCount |-> 0, before |-> EmptyStore, syncCursor |-> 0,
            recordsSucceeded |-> 0, recordsFailed |-> 0,
            totalRecords |-> 0, progress |-> 0]

\* ------------------------------------------ job worker state (see Part 5)
\* a JobState document with the defaults of JobStateSchema
NewJobState == [status |-> "CREATED", totalRecords |-> 0, recordsSucceeded |-> 0,
                recordsFailed |-> 0, progress |-> 0, lastSyncTime |-> Null]

\* no IntegrationJobWorker is processing
IdleJob == [pc |-> "none", doc |-> NewJobState]

\* no JobExecution document was created
NoExecutions == <<>>

\* an empty Checkpoint collection, and no call of saveCheckpoint so far.
\* outcome: how the last call of saveCheckpoint ended for its caller
NoCheckpoints == [collection |-> <<>>, callsMade |-> 0, outcome |-> "none"]

\* no response of client.request is held
NoResponse == [data |-> [products |-> [pageInfo |-> [hasNextPage |-> FALSE,
                                                     endCursor |-> Null],
                                       edges |-> <<>>]]]

\* getProductIdsGenerator was not called.  server: the pages the Shopify API
\* answers with, in order; requests: the `after` of the requests made;
\* batches: the values yielded to the consumer
IdleGenerator ==
  [server |-> <<>>, pc |-> "none", hasNextPage |-> FALSE, cursor |-> Null,
   response |-> NoResponse, requests |-> <<>>, batches |-> <<>>]

\* an empty JobState collection.  docs: the documents; created: how many were
\* created so far; today: the day of new Date()
NoJobStates == [docs |-> {}, created |-> 0, today |-> 1]

\* no Job document.  products: the elements {productId, status} of the
\* array; v: the version key __v
NoJob ==
  [exists |-> FALSE, totalProducts |-> 0, completedProducts |-> 0,
   failedProducts |-> 0, status |-> "none", products |-> <<>>, v |-> 0]

\* the job tracker before JobTracker.createJob: no Job document and no task
\* in the "product-processing" queue
IdleTracker == [job |-> NoJob, tasks |-> <<>>]

\* the shop and the SyncState of the watermark part at rest.  clock:
\* Date.now(); updatedAt: the updated_at of the products in Shopify;
\* shopifyUpdatedAt: the updated_at the Product documents were fetched with
\* (Null: no document); lastSyncedAt, isInProgress: the SyncState;
\* productIds: what the run in progress enumerated; pending: its batch jobs
\* not yet processed; updatedAtMin: its lower bound (Null: none);
\* modifiedAfterFetch: the products modified in Shopify during the run in
\* progress (or the last one) after that run had fetched them
NoUpstream ==
  [clock |-> 1, updatedAt |-> [p \in ProductIds |-> 1],
   shopifyUpdatedAt |-> [p \in ProductIds |-> Null],
   lastSyncedAt |-> Null, isInProgress |-> FALSE,
   productIds |-> {}, pending |-> {}, updatedAtMin |-> Null,
   modifiedAfterFetch |-> {}]

\* The Shopify side is fixed for a behaviour: catalog is what getProductIds
\* enumerates, getProduct rejects for the ids in failing, and with authFails
\* getProductIds itself rejects.
Init ==
  /\ now = 1
  /\ shop \in {sh \in [catalog : SUBSET ProductIds, failing : SUBSET ProductIds,
                       authFails : BOOLEAN] :
                 /\ sh.failing \subseteq sh.catalog
                 /\ sh.authFails => sh.catalog = {}}
  /\ syncState = NoDoc
  /\ products \in SUBSET ProductIds
  /\ syncQueue = <<>>
  /\ productBatchQueue = <<>>
  /\ syncWorker = IdleSyncWorker
  /\ calls = <<>>
  /\ config = IdleConfig
  /\ api = IdleApi
  /\ store = EmptyStore
  /\ run = IdleRun
  /\ date = 0
  /\ shopifyFormat = {}
  /\ runs = NoRuns
  /\ jobWorker = IdleJob
  /\ executions = NoExecutions
  /\ checkpoints = NoCheckpoints
  /\ generator = IdleGenerator
  /\ jobStates = NoJobStates
  /\ tracker = IdleTracker
  /\ upstream = NoUpstream

\* time passes.  The program only compares Date.now() with the startedAt of
\* a run in progress, so the clock of the model ticks only during a run.
Tick ==
  /\ now < MaxTime
  /\ syncState.exists /\ syncState.isInProgress
  /\ now' = now + 1
  /\ UNCHANGED <<shop, syncState, products, syncQueue, productBatchQueue,
                 syncWorker, calls>>
  /\ UNCHANGED <<connVars, dateVars, runs, jobWorker, executions, checkpoints, generator, jobStates, tracker, upstream>>

\* ------------------------------------------------------ queueProductSync
\* faulty variant of FreshStats: the counters and errors of the previous run
\* are kept
FreshStats_KeepsCounters(doc, startedAt) ==
  [doc EXCEPT !.startedAt = startedAt, !.completedAt = Null,
              !.batchJobs = BatchJobsArray,
              !.totalProductsToProcess = 0, !.existingProductIds = {}]

\* lastSyncStats as assigned by queueProductSync
FreshStats(doc, startedAt) ==
  [doc EXCEPT !.startedAt = startedAt, !.completedAt = Null,
              !.productsProcessed = 0, !.productsCreated = 0,
              !.productsUpdated = 0, !.productsDeleted = 0,
              !.errors = <<>>, !.batchJobs = BatchJobsArray,
              !.totalProductsToProcess = 0, !.existingProductIds = {}]

\* faulty variant of RejectsSync: only a stale run is rejected
RejectsSync_OnlyStale(found) == found.isInProgress /\ IsStale(found)

\* the in-progress check of queueProductSync: throw unless the run is stale
RejectsSync(found) == found.isInProgress /\ ~IsStale(found)

\* a finished queueProductSync invocation: "queued" (the job was added),
\* "conflict" (threw "A product sync is already in progress for this store")
\* or "error" (the save threw)
Response(result) ==
  [pc |-> "done", forceFullSync |-> FALSE, loaded |-> NoDoc, doc |-> NoDoc,
   isNew |-> FALSE, result |-> result]

\* queueProductSync up to the decision: resetIncompleteJobs, findOne, the
\* in-progress / stale check.  Throws "already in progress" (result conflict,
\* HTTP 409 in POST /sync-products) or goes on to the save.
QueueProductSyncFind(forceFullSync) ==
  /\ Len(calls) < MaxCalls
  /\ (Len(calls) + 1) * BatchCount(shop.catalog) <= MaxBatchJobs
  /\ LET db == resetIncompleteJobs(syncState)
         found == IF db.exists THEN db ELSE NewSyncState
         reset == IF found.isInProgress /\ IsStale(found)
                    THEN [found EXCEPT !.lastSyncError = [kind |-> "timeout", n |-> 0]]
                    ELSE found
     IN /\ syncState' = db
        /\ IF RejectsSync(found)
             THEN calls' = Append(calls, Response("conflict"))
             ELSE calls' = Append(calls,
                      [pc |-> "save", forceFullSync |-> forceFullSync,
                       loaded |-> found,
                       doc |-> [reset EXCEPT !.isInProgress = TRUE, !.startedAt = now],
                       isNew |-> ~db.exists, result |-> "none"])
  /\ UNCHANGED <<now, shop, products, syncQueue, productBatchQueue, syncWorker>>
  /\ UNCHANGED <<connVars, dateVars, runs, jobWorker, executions, checkpoints, generator, jobStates, tracker, upstream>>

\* the document queueProductSync found is of a run still in progress, which
\* it resets as stale (a fresh run in progress is rejected)
ReplacesRun(found) == found.exists /\ found.isInProgress

\* queueProductSync from `await syncState.save()` on: the save (an insert for
\* a new document, which the unique index {storeId, syncType} rejects when
\* another request inserted first) and syncQueue.add.
QueueProductSyncSave(c) ==
  /\ calls[c].pc = "save"
  /\ IF calls[c].isNew /\ syncState.exists
       THEN /\ calls' = [calls EXCEPT ![c] = Response("error")]
            /\ UNCHANGED <<syncState, syncQueue, productBatchQueue>>
       ELSE /\ productBatchQueue' =
                 [b \in DOMAIN productBatchQueue |->
                    [productBatchQueue[b] EXCEPT
                       !.orphaned = @ \/ ReplacesRun(calls[c].loaded)]]
            /\ syncState' =
                 LET db == IF calls[c].isNew THEN NewSyncState ELSE syncState
                     merged == Save(db, calls[c].loaded, calls[c].doc, FALSE, FALSE, <<>>)
                 IN \* isInProgress was assigned; lastSyncStats is assigned as a whole
                    FreshStats([merged EXCEPT !.isInProgress = TRUE],
                               calls[c].doc.startedAt)
            /\ syncQueue' = Append(syncQueue,
                 [forceFullSync |-> calls[c].forceFullSync, state |-> "waiting",
                  attemptsMade |-> 0])
            /\ calls' = [calls EXCEPT ![c] = Response("queued")]
  /\ UNCHANGED <<now, shop, products, syncWorker>>
  /\ UNCHANGED <<connVars, dateVars, runs, jobWorker, executions, checkpoints, generator, jobStates, tracker, upstream>>

\* ------------------------------------------------------------ syncWorker
JobError == [kind |-> "job", n |-> 0]

\* BullMQ after an attempt of a product-sync job threw: retry while attempts
\* remain, else failed
AfterThrow(job) ==
  [job EXCEPT !.state = IF job.attemptsMade < Attempts THEN "waiting" ELSE "failed"]

\* catch block of the product-sync worker: findById, isInProgress = false,
\* lastSyncError = error.message, completedAt = new Date(), save
SyncWorkerCatch(db) ==
  [db EXCEPT !.isInProgress = FALSE, !.lastSyncError = JobError,
             !.completedAt = now]

\* the batch worker attempt of a job: the SyncState document it loaded and
\* the productIds of its batch for which ProductModel.findOne returned a
\* document
NoAttempt == [pc |-> "none", loaded |-> NoDoc, existingProduct |-> {}]

\* job.returnvalue of a batch job that has not returned
NoResult == [processedCount |-> 0, createdCount |-> 0, updatedCount |-> 0,
             errorCount |-> 0]

\* orphaned is not data of the job: it records that the run which added the
\* job was reset as stale and replaced by a new run
NewBatchJob(ids, forceFullSync) ==
  [productIds |-> ids, forceFullSync |-> forceFullSync, state |-> "waiting",
   attemptsMade |-> 0, attempt |-> NoAttempt, event |-> "none",
   handled |-> FALSE, result |-> NoResult, orphaned |-> FALSE]

\* faulty variant of IncrementalFilters: forceFullSync is not tested
IncrementalFilters_IgnoresForce(forceFullSync, doc) ==
  IF doc.lastSyncedAt # Null
    THEN [updatedAtMin |-> {toISOString(doc.lastSyncedAt)}]
    ELSE NoFilters

\* "If not forcing a full sync and we have a last sync time, do an
\* incremental sync": the filters passed to shopify.getProductIds
IncrementalFilters(forceFullSync, doc) ==
  IF ~forceFullSync /\ doc.lastSyncedAt # Null
    THEN [updatedAtMin |-> {toISOString(doc.lastSyncedAt)}]
    ELSE NoFilters

\* product-sync worker up to the batchJobs assignment: findById,
\* isInProgress = true, save; shopify.getProductIds(incrementalFilters)
\* returns the catalog (the products of the shop of the model are modified
\* after every lower bound a run asks for);
\* totalProductsToProcess is saved; for forceFullSync the productIds of the
\* store are snapshotted into existingProductIds and saved; then the loop of
\* productBatchQueue.add over the slices of productIds.
SyncWorkerEnumerate(j) ==
  /\ syncWorker.pc = "idle"
  /\ syncQueue[j].state = "waiting"
  /\ ~shop.authFails
  /\ LET ffs == syncQueue[j].forceFullSync
         productIds == SortedSeq(shop.catalog)
         local == [syncState EXCEPT
                     !.isInProgress = TRUE,
                     !.totalProductsToProcess = Len(productIds),
                     !.existingProductIds = IF ffs THEN products ELSE @]
         slices == Batches(productIds, BatchSize)
         first == Len(productBatchQueue)
     IN /\ syncState' = Save(syncState, syncState, local, FALSE, FALSE, <<>>)
        /\ productBatchQueue' = productBatchQueue \o
             [i \in 1..Len(slices) |-> NewBatchJob(slices[i], ffs)]
        /\ syncWorker' = [pc |-> "saveBatchJobs", job |-> j, doc |-> local,
                          batchIds |-> (first + 1)..(first + Len(slices)),
                          incrementalFilters |-> IncrementalFilters(ffs, syncState)]
  /\ syncQueue' = [syncQueue EXCEPT ![j].state = "active",
                                    ![j].attemptsMade = @ + 1]
  /\ UNCHANGED <<now, shop, products, calls>>
  /\ UNCHANGED <<connVars, dateVars, runs, jobWorker, executions, checkpoints, generator, jobStates, tracker, upstream>>

\* product-sync worker when shopify.getProductIds throws (for example an
\* authentication error): findById, isInProgress = true, save, then the
\* catch block and the rethrow to BullMQ
SyncWorkerEnumerateThrows(j) ==
  /\ syncWorker.pc = "idle"
  /\ syncQueue[j].state = "waiting"
  /\ shop.authFails
  /\ syncState' = SyncWorkerCatch(syncState)
  /\ syncQueue' = [syncQueue EXCEPT
       ![j] = AfterThrow([@ EXCEPT !.attemptsMade = @ + 1])]
  /\ UNCHANGED <<now, shop, products, productBatchQueue, syncWorker, calls>>
  /\ UNCHANGED <<connVars, dateVars, runs, jobWorker, executions, checkpoints, generator, jobStates, tracker, upstream>>

\* lastSyncStats.batchJobs = {total, completed: 0, failed: 0, pending, ids},
\* save, return: the job is completed
SyncWorkerSaveBatchJobs ==
  /\ syncWorker.pc = "saveBatchJobs"
  /\ LET n == Cardinality(syncWorker.batchIds)
         local == [syncWorker.doc EXCEPT
                     !.batchJobs = BatchJobsObject(n, 0, 0, n, syncWorker.batchIds)]
     IN syncState' = Save(syncState, syncWorker.doc, local, TRUE, FALSE, <<>>)
  /\ syncQueue' = [syncQueue EXCEPT ![syncWorker.job].state = "completed"]
  /\ syncWorker' = IdleSyncWorker
  /\ UNCHANGED <<now, shop, products, productBatchQueue, calls>>
  /\ UNCHANGED <<connVars, dateVars, runs, jobWorker, executions, checkpoints, generator, jobStates, tracker, upstream>>

\* ----------------------------------------------------------- batchWorker
Max(a, b) == IF a >= b THEN a ELSE b

\* "Ensure batchJobs exists and has the right structure": an array value is
\* replaced by a zeroed object
EnsureObject(bj) == IF IsObjectFormat(bj) THEN bj ELSE BatchJobsObject(0, 0, 0, 0, {})

\* completed += 1; pending = Math.max(0, pending - 1)
CountCompleted(bj) ==
  [bj EXCEPT !.completed = @ + 1, !.pending = Max(0, @ - 1)]

\* failed += 1; pending -= 1
CountFailed(bj) ==
  [bj EXCEPT !.failed = @ + 1, !.pending = @ - 1]

ActiveBatchJobs == {b \in DOMAIN productBatchQueue : productBatchQueue[b].state = "active"}

\* BullMQ after a batch attempt threw: retry, or failed with its queue event
AfterBatchThrow(job) ==
  IF job.attemptsMade < Attempts
    THEN [job EXCEPT !.state = "waiting", !.attempt = NoAttempt]
    ELSE [job EXCEPT !.state = "failed", !.attempt = NoAttempt,
                     !.event = "failed"]

\* catch block of the batch worker: findById; when batchJobs is an object,
\* failed += 1 and pending -= 1 (in place, not written by save),
\* errors.push({productId: "batch"}), save
BatchWorkerCatch(db) ==
  IF IsObjectFormat(db.batchJobs)
    THEN Save(db, db, [db EXCEPT !.batchJobs = CountFailed(@)], FALSE, TRUE, <<"batch">>)
    ELSE db

\* batch worker, fetch of the job and findById, for a batch whose getProduct
\* calls all resolve.  existingProduct is what findOne returns when it runs
\* before any other step.
BatchWorkerStart(b) ==
  /\ productBatchQueue[b].state = "waiting"
  /\ Cardinality(ActiveBatchJobs) < BatchConcurrency
  /\ Range(productBatchQueue[b].productIds) \cap shop.failing = {}
  /\ productBatchQueue' = [productBatchQueue EXCEPT
       ![b].state = "active", ![b].attemptsMade = @ + 1,
       ![b].attempt = [pc |-> "process", loaded |-> syncState,
                       existingProduct |-> Range(productBatchQueue[b].productIds)
                                             \cap products]]
  /\ UNCHANGED <<now, shop, syncState, products, syncQueue, syncWorker, calls>>
  /\ UNCHANGED <<connVars, dateVars, runs, jobWorker, executions, checkpoints, generator, jobStates, tracker, upstream>>

\* the products of a batch for which ProductModel.create throws E11000:
\* findOne returned null and the unique index on productId (product.ts:27)
\* meets a document that was inserted since
DuplicateKey(ids, existingProduct, inStore) == (ids \ existingProduct) \cap inStore

\* the products of a batch for which ProductModel.create inserts a document
Created(ids, existingProduct, inStore) == (ids \ existingProduct) \ inStore

\* the document of a batch attempt after the chunk loop: the counters, the
\* removal of the processed ids from existingProductIds (forceFullSync) and
\* the batchJobs counters, all on the loaded document.  existingProduct: the
\* ids for which findOne returned a document (updateOne, updatedCount++);
\* for the others create either inserts (createdCount++) or throws into the
\* catch of the product.
BatchResult(loaded, job, existingProduct, inStore) ==
  LET ids == Range(job.productIds)
      createdCount == Cardinality(Created(ids, existingProduct, inStore))
      updatedCount == Cardinality(ids \cap existingProduct)
      processed == ids \ DuplicateKey(ids, existingProduct, inStore)
  IN [loaded EXCEPT
        !.productsProcessed = @ + createdCount + updatedCount,
        !.productsCreated = @ + createdCount,
        !.productsUpdated = @ + updatedCount,
        !.existingProductIds = IF job.forceFullSync THEN @ \ processed ELSE @,
        !.batchJobs = CountCompleted(EnsureObject(@))]

\* "Return job result" of the batch worker
BatchReturn(ids, existingProduct, inStore) ==
  LET createdCount == Cardinality(Created(ids, existingProduct, inStore))
      updatedCount == Cardinality(ids \cap existingProduct)
  IN [processedCount |-> createdCount + updatedCount,
      createdCount |-> createdCount, updatedCount |-> updatedCount,
      errorCount |-> Cardinality(DuplicateKey(ids, existingProduct, inStore))]

\* batch worker after the load: getProduct for every id, findOne and
\* updateOne / create for every product, errors.push(...batchErrors), save,
\* return (the queue emits "completed"); a VersionError of the save goes to
\* the catch block.  findOne has run either right after the load
\* (attempt.existingProduct) or right before the write; updateOne of a
\* document that was deleted since matches nothing.
BatchWorkerProcess(b) ==
  /\ productBatchQueue[b].attempt.pc = "process"
  /\ \E existingProduct \in {productBatchQueue[b].attempt.existingProduct,
                             Range(productBatchQueue[b].productIds) \cap products} :
       LET job == productBatchQueue[b]
           ids == Range(job.productIds)
           loaded == job.attempt.loaded
           local == BatchResult(loaded, job, existingProduct, products)
           batchErrors == [i \in 1..Cardinality(DuplicateKey(ids, existingProduct, products))
                             |-> "product"]
       IN /\ products' = products \cup Created(ids, existingProduct, products)
          /\ IF VersionConflict(syncState, loaded, local)
               THEN /\ syncState' = BatchWorkerCatch(syncState)
                    /\ productBatchQueue' = [productBatchQueue EXCEPT ![b] = AfterBatchThrow(@)]
               ELSE /\ syncState' = Save(syncState, loaded, local,
                                         ~IsObjectFormat(loaded.batchJobs), TRUE, batchErrors)
                    /\ productBatchQueue' = [productBatchQueue EXCEPT
                         ![b].state = "completed", ![b].attempt = NoAttempt,
                         ![b].event = "completed",
                         ![b].result = BatchReturn(ids, existingProduct, products)]
  /\ UNCHANGED <<now, shop, syncQueue, syncWorker, calls>>
  /\ UNCHANGED <<connVars, dateVars, runs, jobWorker, executions, checkpoints, generator, jobStates, tracker, upstream>>

\* batch worker for a batch with an id for which shopify.getProduct rejects:
\* fetch of the job, findById, Promise.all throws into the catch block of the
\* job (which loads the document again), rethrow to BullMQ
BatchWorkerGetProductThrows(b) ==
  /\ productBatchQueue[b].state = "waiting"
  /\ Cardinality(ActiveBatchJobs) < BatchConcurrency
  /\ Range(productBatchQueue[b].productIds) \cap shop.failing # {}
  /\ syncState' = BatchWorkerCatch(syncState)
  /\ productBatchQueue' = [productBatchQueue EXCEPT
       ![b] = AfterBatchThrow([@ EXCEPT !.attemptsMade = @ + 1])]
  /\ UNCHANGED <<now, shop, products, syncQueue, syncWorker, calls>>
  /\ UNCHANGED <<connVars, dateVars, runs, jobWorker, executions, checkpoints, generator, jobStates, tracker, upstream>>

\* ------------------------------------------------- batch queue event handlers
\* "Check if all batch jobs are completed" of the completed handler
AllCompleted(bj) ==
  IF bj.ids # {}
    THEN bj.completed + bj.failed >= Cardinality(bj.ids)
    ELSE bj.total > 0 /\ bj.completed + bj.failed >= bj.total

\* "Update sync state with final stats" of the completed handler
FinalStatsCompleted(doc) ==
  [doc EXCEPT !.isInProgress = FALSE, !.lastSyncedAt = now,
              !.totalSyncs = @ + 1,
              !.totalProductsProcessed = @ + doc.productsProcessed,
              !.totalProductsCreated = @ + doc.productsCreated,
              !.totalProductsUpdated = @ + doc.productsUpdated,
              !.totalProductsDeleted = @ + doc.productsDeleted,
              !.completedAt = now]

\* the ids the completed handler passes to ProductModel.deleteMany
ProductsToDelete(job, doc) ==
  IF job.forceFullSync /\ doc.existingProductIds # {}
    THEN doc.existingProductIds ELSE {}

\* batchQueueEvents.on("completed"): getJob, findById, the counter update and
\* its save, the completion check, deleteMany of existingProductIds for a
\* forceFullSync job and the final save
BatchCompleted(b) ==
  /\ productBatchQueue[b].event = "completed"
  /\ productBatchQueue[b].handled = FALSE
  /\ LET job == productBatchQueue[b]
         loaded == syncState
         counted == [loaded EXCEPT !.batchJobs = CountCompleted(EnsureObject(@))]
         db1 == Save(syncState, loaded, counted, ~IsObjectFormat(loaded.batchJobs),
                     FALSE, <<>>)
         toDelete == ProductsToDelete(job, counted)
         final == FinalStatsCompleted(
                    [counted EXCEPT !.productsDeleted =
                       IF toDelete # {} THEN Cardinality(toDelete \cap products) ELSE @])
     IN IF AllCompleted(counted.batchJobs)
          THEN /\ products' = products \ toDelete
               /\ syncState' = Save(db1, loaded, final, FALSE, FALSE, <<>>)
          ELSE /\ syncState' = db1
               /\ UNCHANGED products
  /\ productBatchQueue' = [productBatchQueue EXCEPT ![b].handled = TRUE]
  /\ UNCHANGED <<now, shop, syncQueue, syncWorker, calls>>
  /\ UNCHANGED <<connVars, dateVars, runs, jobWorker, executions, checkpoints, generator, jobStates, tracker, upstream>>

\* "Update sync state with final stats" of the failed handler
FinalStatsFailed(doc) ==
  [doc EXCEPT !.isInProgress = FALSE, !.lastSyncedAt = now,
              !.totalSyncs = @ + 1,
              !.totalProductsProcessed = @ + doc.productsProcessed,
              !.totalProductsCreated = @ + doc.productsCreated,
              !.totalProductsUpdated = @ + doc.productsUpdated,
              !.completedAt = now,
              !.lastSyncError = IF doc.batchJobs.failed > 0
                                  THEN [kind |-> "failedBatches", n |-> doc.batchJobs.failed]
                                  ELSE @]

\* batchQueueEvents.on("failed"): getJob, findById, the counter update and
\* its save, the completion check and the final save
BatchFailed(b) ==
  /\ productBatchQueue[b].event = "failed"
  /\ productBatchQueue[b].handled = FALSE
  /\ LET loaded == syncState
         counted == [loaded EXCEPT !.batchJobs = CountFailed(@)]
         db1 == Save(syncState, loaded, counted, FALSE, TRUE, <<"batch-job">>)
         bj == counted.batchJobs
     IN IF ~IsObjectFormat(loaded.batchJobs)
          THEN UNCHANGED syncState
          ELSE IF bj.completed + bj.failed = bj.total
            THEN syncState' = Save(db1, loaded, FinalStatsFailed(counted), FALSE, FALSE, <<>>)
            ELSE syncState' = db1
  /\ productBatchQueue' = [productBatchQueue EXCEPT ![b].handled = TRUE]
  /\ UNCHANGED <<now, shop, products, syncQueue, syncWorker, calls>>
  /\ UNCHANGED <<connVars, dateVars, runs, jobWorker, executions, checkpoints, generator, jobStates, tracker, upstream>>

\* ------------------------------------------------------ stuck-run recovery
\* cleanupStuckSyncJobs: runs in progress whose startedAt is more than one
\* hour old; the pending batches are counted as failed in place (batchJobs
\* is not assigned, so save does not write it)
cleanupStuckSyncJobs ==
  /\ syncState.exists
  /\ syncState.isInProgress
  /\ IsStale(syncState)
  /\ LET bj == syncState.batchJobs
         local == [syncState EXCEPT
                     !.batchJobs = IF IsObjectFormat(bj) /\ bj.pending > 0
                                     THEN [bj EXCEPT !.failed = @ + bj.pending, !.pending = 0]
                                     ELSE bj,
                     !.isInProgress = FALSE,
                     !.lastSyncError = [kind |-> "stuck-timeout", n |-> 0],
                     !.completedAt = now]
     IN syncState' = Save(syncState, syncState, local, FALSE, FALSE, <<>>)
  /\ UNCHANGED <<now, shop, products, syncQueue, productBatchQueue, syncWorker, calls>>
  /\ UNCHANGED <<connVars, dateVars, runs, jobWorker, executions, checkpoints, generator, jobStates, tracker, upstream>>

\* POST /fix-stuck-syncs
FixStuckSyncs ==
  /\ syncState.exists
  /\ syncState.isInProgress
  /\ LET bj == syncState.batchJobs
         allBatchesComplete == bj.total > 0 /\ bj.completed + bj.failed >= bj.total
         durationMinutes == ElapsedMinutes(syncState.startedAt)
         local == [syncState EXCEPT
                     !.isInProgress = FALSE, !.lastSyncedAt = now,
                     !.totalSyncs = @ + 1,
                     !.totalProductsProcessed = @ + syncState.productsProcessed,
                     !.totalProductsCreated = @ + syncState.productsCreated,
                     !.totalProductsUpdated = @ + syncState.productsUpdated,
                     !.completedAt = now,
                     !.lastSyncError = IF ~allBatchesComplete
                                         THEN [kind |-> "auto-complete", n |-> durationMinutes]
                                         ELSE @]
     IN /\ allBatchesComplete \/ durationMinutes > FixStuckMinutes
        /\ syncState' = Save(syncState, syncState, local, FALSE, FALSE, <<>>)
  /\ UNCHANGED <<now, shop, products, syncQueue, productBatchQueue, syncWorker, calls>>
  /\ UNCHANGED <<connVars, dateVars, runs, jobWorker, executions, checkpoints, generator, jobStates, tracker, upstream>>

\* ------------------------------------------------------------------ Next
Next ==
  \/ Tick
  \/ \E f \in BOOLEAN : QueueProductSyncFind(f)
  \/ \E c \in DOMAIN calls : QueueProductSyncSave(c)
  \/ \E j \in DOMAIN syncQueue : SyncWorkerEnumerate(j)
  \/ \E j \in DOMAIN syncQueue : SyncWorkerEnumerateThrows(j)
  \/ SyncWorkerSaveBatchJobs
  \/ \E b \in DOMAIN productBatchQueue : BatchWorkerStart(b)
  \/ \E b \in DOMAIN productBatchQueue : BatchWorkerProcess(b)
  \/ \E b \in DOMAIN productBatchQueue : BatchWorkerGetProductThrows(b)
  \/ \E b \in DOMAIN productBatchQueue : BatchCompleted(b)
  \/ \E b \in DOMAIN productBatchQueue : BatchFailed(b)
  \/ cleanupStuckSyncJobs
  \/ FixStuckSyncs

Spec == Init /\ [][Next]_vars

\* ---------------------------------------------------------------------
\* Specification SpecRetry: the queue-based sync of Part 1 for a shop whose
\* getProductIds throws, with the attempt of the product-sync worker at the
\* grain of its two writes: the save of isInProgress = true before the
\* request, and the catch block after it.
\* ---------------------------------------------------------------------
InitRetry ==
  /\ now = 1
  /\ shop = [catalog |-> {}, failing |-> {}, authFails |-> TRUE]
  /\ syncState = NoDoc
  /\ products = {}
  /\ syncQueue = <<>>
  /\ productBatchQueue = <<>>
  /\ syncWorker = IdleSyncWorker
  /\ calls = <<>>
  /\ config = IdleConfig
  /\ api = IdleApi
  /\ store = EmptyStore
  /\ run = IdleRun
  /\ date = 0
  /\ shopifyFormat = {}
  /\ runs = NoRuns
  /\ jobWorker = IdleJob
  /\ executions = NoExecutions
  /\ checkpoints = NoCheckpoints
  /\ generator = IdleGenerator
  /\ jobStates = NoJobStates
  /\ tracker = IdleTracker
  /\ upstream = NoUpstream

\* product-sync worker up to the call of shopify.getProductIds: findById,
\* isInProgress = true, save, the filters, and the request is sent
SyncWorkerStart(j) ==
  /\ syncWorker.pc = "idle"
  /\ syncQueue[j].state = "waiting"
  /\ shop.authFails
  /\ LET local == [syncState EXCEPT !.isInProgress = TRUE]
     IN /\ syncState' = Save(syncState, syncState, local, FALSE, FALSE, <<>>)
        /\ syncWorker' = [pc |-> "getProductIds", job |-> j, doc |-> local,
                          batchIds |-> {},
                          incrementalFilters |->
                            IncrementalFilters(syncQueue[j].forceFullSync, syncState)]
  /\ syncQueue' = [syncQueue EXCEPT ![j].state = "active",
                                    ![j].attemptsMade = @ + 1]
  /\ UNCHANGED <<now, shop, products, productBatchQueue, calls>>
  /\ UNCHANGED <<connVars, dateVars, runs, jobWorker, executions, checkpoints, generator, jobStates, tracker, upstream>>

\* shopify.getProductIds throws: the catch block of the product-sync worker
\* and the rethrow to BullMQ
SyncWorkerGetProductIdsThrows ==
  /\ syncWorker.pc = "getProductIds"
  /\ syncState' = SyncWorkerCatch(syncState)
  /\ syncQueue' = [syncQueue EXCEPT ![syncWorker.job] = AfterThrow(@)]
  /\ syncWorker' = IdleSyncWorker
  /\ UNCHANGED <<now, shop, products, productBatchQueue, calls>>
  /\ UNCHANGED <<connVars, dateVars, runs, jobWorker, executions, checkpoints, generator, jobStates, tracker, upstream>>

NextRetry ==
  \/ Tick
  \/ \E f \in BOOLEAN : QueueProductSyncFind(f)
  \/ \E c \in DOMAIN calls : QueueProductSyncSave(c)
  \/ \E j \in DOMAIN syncQueue : SyncWorkerStart(j)
  \/ SyncWorkerGetProductIdsThrows
  \/ cleanupStuckSyncJobs
  \/ FixStuckSyncs

SpecRetry == InitRetry /\ [][NextRetry]_vars

\* =====================================================================
\* Part 2 (specification SpecConn): one run of fetchData of
\* back-end/src/connectors/sources/shopify.ts on the Product collection of
\* one storeId.  The pages the product id generator yields, the products for
\* which getProduct or updateOne fails and the configuration are fixed at the
\* start of the run.
\* =====================================================================
\* the sequences over S of length 1..n
SeqsUpTo(S, n) == UNION {[1..k -> S] : k \in 1..n}

\* config.maxProducts || Infinity: more than a run of the model can fetch
Infinity == (MaxPages + MaxGuardPages) * MaxPageLen + 1

\* the Product documents a run can find: none, a live product, a product
\* marked deleted by an earlier run (at time 1; the run starts at time 2)
LiveProduct == [exists |-> TRUE, deleted_at |-> Null, last_action |-> "ADDED",
                first_seen_at |-> 1]
DeletedProduct == [exists |-> TRUE, deleted_at |-> 1, last_action |-> "DELETED",
                   first_seen_at |-> 1]

\* the productIds of the pages received so far
EnumeratedIds == UNION {Range(api.pages[i]) : i \in 1..run.page}

InitConn ==
  /\ now = 1
  /\ shop = [catalog |-> {}, failing |-> {}, authFails |-> FALSE]
  /\ syncState = NoDoc
  /\ products = {}
  /\ syncQueue = <<>>
  /\ productBatchQueue = <<>>
  /\ syncWorker = IdleSyncWorker
  /\ calls = <<>>
  /\ config \in {c \in [isFullSync : BOOLEAN, skipCleanup : BOOLEAN,
                         maxProducts : {1, Infinity},
                         estimatedMaxProducts : {1, EstimatedMaxProducts},
                         detailBatchSize : {1, MaxPageLen},
                         purgeDeletedAfterDays : {0, 1}] :
                    /\ ~c.isFullSync => (~c.skipCleanup /\ c.purgeDeletedAfterDays = 0)
                    /\ c.skipCleanup => c.purgeDeletedAfterDays = 0
                    /\ c.maxProducts = 1 => c.estimatedMaxProducts = EstimatedMaxProducts}
  /\ api \in {a \in [pages : {<<>>} \cup SeqsUpTo(SeqsUpTo(ProductIds, MaxPageLen), MaxPages),
                      fault : [ProductIds -> {"none", "getProduct", "updateOne"}],
                      updateManyFails : BOOLEAN] :
                 a.updateManyFails => (config.isFullSync /\ ~config.skipCleanup
                                       /\ config.purgeDeletedAfterDays = 0)}
  /\ store \in [ProductIds -> {NoProduct, LiveProduct, DeletedProduct}]
  /\ run = [IdleRun EXCEPT !.pc = "enumerate", !.before = store, !.syncCursor = 2]
  /\ date = 0
  /\ shopifyFormat = {}
  /\ runs = NoRuns
  /\ jobWorker = IdleJob
  /\ executions = NoExecutions
  /\ checkpoints = NoCheckpoints
  /\ generator = IdleGenerator
  /\ jobStates = NoJobStates
  /\ tracker = IdleTracker
  /\ upstream = NoUpstream

\* ------------------------------------------------- SyncContextImpl
\* the metrics of the SyncContextImpl of the run are the fields totalRecords,
\* recordsSucceeded, recordsFailed and progress of `run`
Min(a, b) == IF a <= b THEN a ELSE b

\* Math.floor((processed / totalRecords) * 100), totalRecords > 0
FloorPercent(processed, totalRecords) == (100 * processed) \div totalRecords

\* Math.round((processed / totalFetched) * 100), processed >= 0,
\* totalFetched > 0
RoundPercent(processed, totalFetched) ==
  (200 * processed + totalFetched) \div (2 * totalFetched)

recordTotalCount(metrics, count) == [metrics EXCEPT !.totalRecords = count]

updateProgress(metrics, progress) ==
  [metrics EXCEPT !.progress = Min(progress, 100)]

updateProgressFromCounts(metrics) ==
  IF metrics.totalRecords > 0
    THEN [metrics EXCEPT !.progress =
            Min(FloorPercent(metrics.recordsSucceeded + metrics.recordsFailed,
                             metrics.totalRecords), 100)]
    ELSE metrics

recordSuccess(metrics, count) ==
  updateProgressFromCounts([metrics EXCEPT !.recordsSucceeded = @ + count])

recordFailure(metrics, count) ==
  updateProgressFromCounts([metrics EXCEPT !.recordsFailed = @ + count])

\* for await (const productIdBatch of productIdsGenerator): the next page,
\* the duplicate filter against processedIdSet, totalFetched,
\* syncContext.recordTotalCount(totalFetched)
FetchPage ==
  /\ run.pc = "enumerate"
  /\ run.page < Len(api.pages)
  /\ LET productIdBatch == api.pages[run.page + 1]
         newUniqueIds == SelectSeq(productIdBatch, LAMBDA id : id \notin run.processedIdSet)
     IN run' = recordTotalCount(
                 [run EXCEPT
                    !.pc = "details", !.page = @ + 1,
                    !.duplicateCount = @ + (Len(productIdBatch) - Len(newUniqueIds)),
                    !.productIdsToProcess = @ \o newUniqueIds,
                    !.totalFetched = @ + Len(productIdBatch)],
                 run.totalFetched + Len(productIdBatch))
  /\ UNCHANGED <<config, api, store>>
  /\ UNCHANGED <<queueVars, dateVars, runs, jobWorker, executions, checkpoints, generator, jobStates, tracker, upstream>>

\* the generator is exhausted: the for await loop ends
EnumerationEnds ==
  /\ run.pc = "enumerate"
  /\ run.page = Len(api.pages)
  /\ run' = [run EXCEPT !.pc = "cleanup"]
  /\ UNCHANGED <<config, api, store>>
  /\ UNCHANGED <<queueVars, dateVars, runs, jobWorker, executions, checkpoints, generator, jobStates, tracker, upstream>>

\* the condition of the while loop over productIdsToProcess
MoreDetails ==
  /\ Len(run.productIdsToProcess) > 0
  /\ run.totalFetched <= config.maxProducts

\* productIdsToProcess.splice(0, detailBatchSize)
CurrentBatch ==
  SubSeq(run.productIdsToProcess, 1,
         IF Len(run.productIdsToProcess) < config.detailBatchSize
           THEN Len(run.productIdsToProcess) ELSE config.detailBatchSize)

RestAfterBatch ==
  SubSeq(run.productIdsToProcess, Len(CurrentBatch) + 1, Len(run.productIdsToProcess))

\* faulty variant of Upserted: the deleted_at of the existing document is kept
Upserted_KeepsDeletedAt(existingProduct, time) ==
  [exists |-> TRUE, deleted_at |-> existingProduct.deleted_at,
   last_action |-> IF existingProduct.exists THEN "UPDATED" ELSE "ADDED",
   first_seen_at |-> IF existingProduct.exists
                       THEN existingProduct.first_seen_at ELSE time]

\* transformProduct at `time` and the $set of the upsert of one product: with
\* an existing document (also one marked deleted) last_action is UPDATED and
\* first_seen_at is the one of existingProduct, without it ADDED and `time`;
\* deleted_at = null
Upserted(existingProduct, time) ==
  [exists |-> TRUE, deleted_at |-> Null,
   last_action |-> IF existingProduct.exists THEN "UPDATED" ELSE "ADDED",
   first_seen_at |-> IF existingProduct.exists
                       THEN existingProduct.first_seen_at ELSE time]

\* the loop "for (const shopifyProduct of products)" over the fetched batch:
\* findOne, transformProduct, updateOne with upsert; a product whose write
\* throws is counted in failed, the others are pushed to processedProductIds
RECURSIVE SaveProducts(_, _)
SaveProducts(ids, sr) ==
  IF ids = <<>> THEN sr
  ELSE LET id == Head(ids)
           st == sr.store
           r == sr.run
       IN IF api.fault[id] = "updateOne"
            THEN SaveProducts(Tail(ids), [sr EXCEPT !.run.failed = @ + 1])
            ELSE SaveProducts(Tail(ids),
                   [store |-> [st EXCEPT ![id] = Upserted(st[id], r.syncCursor)],
                    run |-> [r EXCEPT
                       !.created = IF st[id].exists THEN @ ELSE @ + 1,
                       !.updated = IF st[id].exists THEN @ + 1 ELSE @,
                       !.processedProductIds = Append(@, id),
                       !.processedIdSet = @ \cup {id}]])

\* one round of the while loop in which every getProduct resolves
ProcessDetailBatch ==
  /\ run.pc = "details"
  /\ MoreDetails
  /\ \A i \in DOMAIN CurrentBatch : api.fault[CurrentBatch[i]] # "getProduct"
  /\ LET sr == SaveProducts(CurrentBatch,
                  [store |-> store,
                   run |-> [run EXCEPT !.productIdsToProcess = RestAfterBatch]])
         progress == RoundPercent(Len(sr.run.processedProductIds), run.totalFetched)
     IN /\ store' = sr.store
        \* syncContext.updateProgress(progress);
        \* syncContext.recordSuccess(currentBatch.length - failed)
        /\ run' = recordSuccess(updateProgress(sr.run, progress),
                                Len(CurrentBatch) - sr.run.failed)
  /\ UNCHANGED <<config, api>>
  /\ UNCHANGED <<queueVars, dateVars, runs, jobWorker, executions, checkpoints, generator, jobStates, tracker, upstream>>

\* faulty variant of DetailBatchThrows: the rejection is not caught by the
\* try of the batch and leaves fetchData through its outer catch
DetailBatchThrows_Rethrows ==
  /\ run.pc = "details"
  /\ MoreDetails
  /\ \E i \in DOMAIN CurrentBatch : api.fault[CurrentBatch[i]] = "getProduct"
  /\ run' = [run EXCEPT !.pc = "threw"]
  /\ UNCHANGED <<config, api, store>>
  /\ UNCHANGED <<queueVars, dateVars, runs, jobWorker, executions, checkpoints, generator, jobStates, tracker, upstream>>

\* one round of the while loop in which a getProduct rejects: Promise.all
\* throws, the catch of the batch logs "Error processing batch", calls
\* syncContext.recordFailure(currentBatch.length) and counts the whole batch
\* as failed
DetailBatchThrows ==
  /\ run.pc = "details"
  /\ MoreDetails
  /\ \E i \in DOMAIN CurrentBatch : api.fault[CurrentBatch[i]] = "getProduct"
  /\ run' = recordFailure([run EXCEPT !.productIdsToProcess = RestAfterBatch,
                                       !.failed = @ + Len(CurrentBatch)],
                          Len(CurrentBatch))
  /\ UNCHANGED <<config, api, store>>
  /\ UNCHANGED <<queueVars, dateVars, runs, jobWorker, executions, checkpoints, generator, jobStates, tracker, upstream>>

\* faulty variant of RunawayGuard: only the number of processed products is
\* tested
RunawayGuard_OnlyProcessed ==
  2 * Len(run.processedProductIds) > 3 * config.estimatedMaxProducts

\* "Check if we're processing too many products - failsafe"
RunawayGuard ==
  \/ run.totalFetched > config.estimatedMaxProducts * 2
  \/ 2 * Len(run.processedProductIds) > 3 * config.estimatedMaxProducts
  \/ run.duplicateCount > config.estimatedMaxProducts

\* after the while loop: the failsafe breaks out of the for await loop
RunawayGuardStops ==
  /\ run.pc = "details"
  /\ ~MoreDetails
  /\ RunawayGuard
  /\ run' = [run EXCEPT !.pc = "cleanup"]
  /\ UNCHANGED <<config, api, store>>
  /\ UNCHANGED <<queueVars, dateVars, runs, jobWorker, executions, checkpoints, generator, jobStates, tracker, upstream>>

\* after the while loop: totalFetched >= maxProductsToProcess breaks out
MaxProductsStops ==
  /\ run.pc = "details"
  /\ ~MoreDetails
  /\ ~RunawayGuard
  /\ run.totalFetched >= config.maxProducts
  /\ run' = [run EXCEPT !.pc = "cleanup"]
  /\ UNCHANGED <<config, api, store>>
  /\ UNCHANGED <<queueVars, dateVars, runs, jobWorker, executions, checkpoints, generator, jobStates, tracker, upstream>>

\* after the while loop: on to the next page
ContinueEnumeration ==
  /\ run.pc = "details"
  /\ ~MoreDetails
  /\ ~RunawayGuard
  /\ run.totalFetched < config.maxProducts
  /\ run' = [run EXCEPT !.pc = "enumerate"]
  /\ UNCHANGED <<config, api, store>>
  /\ UNCHANGED <<queueVars, dateVars, runs, jobWorker, executions, checkpoints, generator, jobStates, tracker, upstream>>

\* faulty variant of CleanupRuns: the cleanup does not test isFullSync
CleanupRuns_AnyRun ==
  /\ Len(run.processedProductIds) > 0
  /\ ~config.skipCleanup

\* the guard of "mark products as deleted if they weren't in this sync"
CleanupRuns ==
  /\ config.isFullSync
  /\ Len(run.processedProductIds) > 0
  /\ ~config.skipCleanup

\* faulty variant of MarkedDeleted: $in instead of $nin
MarkedDeleted_In(st) ==
  [p \in ProductIds |->
     IF st[p].exists /\ p \in Range(run.processedProductIds)
                     /\ st[p].deleted_at = Null
       THEN [st[p] EXCEPT !.deleted_at = run.syncCursor, !.last_action = "DELETED"]
       ELSE st[p]]

\* ProductModel.updateMany({storeId, productId: {$nin: processedProductIds},
\* "_sync_metadata.deleted_at": null}, {$set: {deleted_at, last_action}})
MarkedDeleted(st) ==
  [p \in ProductIds |->
     IF st[p].exists /\ p \notin Range(run.processedProductIds)
                     /\ st[p].deleted_at = Null
       THEN [st[p] EXCEPT !.deleted_at = run.syncCursor, !.last_action = "DELETED"]
       ELSE st[p]]

\* ProductModel.deleteMany({storeId, deleted_at: {$ne: null, $lte: purgeDate}})
\* when config.purgeDeletedAfterDays is set
Purged(st) ==
  [p \in ProductIds |->
     IF /\ config.purgeDeletedAfterDays # 0
        /\ st[p].exists /\ st[p].deleted_at # Null
        /\ st[p].deleted_at <= run.syncCursor - config.purgeDeletedAfterDays
       THEN NoProduct ELSE st[p]]

\* the end of fetchData: the cleanup of a full sync (an error of updateMany is
\* caught and logged) and the final statistics
MarkDeletedProducts ==
  /\ run.pc = "cleanup"
  /\ store' = IF CleanupRuns /\ ~api.updateManyFails
                THEN Purged(MarkedDeleted(store)) ELSE store
  /\ run' = [run EXCEPT !.pc = "done"]
  /\ UNCHANGED <<config, api>>
  /\ UNCHANGED <<queueVars, dateVars, runs, jobWorker, executions, checkpoints, generator, jobStates, tracker, upstream>>

NextConn ==
  \/ FetchPage
  \/ EnumerationEnds
  \/ ProcessDetailBatch
  \/ DetailBatchThrows
  \/ RunawayGuardStops
  \/ MaxProductsStops
  \/ ContinueEnumeration
  \/ MarkDeletedProducts

SpecConn == InitConn /\ [][NextConn]_vars

\* fetchData is one async function: it goes on whenever the promise it awaits
\* settles
SpecConnFair == SpecConn /\ WF_vars(NextConn)

\* ---------------------------------------------------------------------
\* Specification SpecGuard: the runs of fetchData of a small store
\* (estimatedMaxProducts = 1 or 2) whose id generator yields up to MaxGuardPages
\* pages, so that the failsafe is met while pages remain.
\* ---------------------------------------------------------------------
InitGuard ==
  /\ now = 1
  /\ shop = [catalog |-> {}, failing |-> {}, authFails |-> FALSE]
  /\ syncState = NoDoc
  /\ products = {}
  /\ syncQueue = <<>>
  /\ productBatchQueue = <<>>
  /\ syncWorker = IdleSyncWorker
  /\ calls = <<>>
  /\ config \in [isFullSync : BOOLEAN, skipCleanup : {FALSE},
                  maxProducts : {1, Infinity},
                  estimatedMaxProducts : {1, 2},
                  detailBatchSize : {1, MaxPageLen},
                  purgeDeletedAfterDays : {0}]
  /\ api \in [pages : SeqsUpTo(SeqsUpTo(ProductIds, MaxPageLen), MaxGuardPages),
               fault : [ProductIds -> {"none", "getProduct", "updateOne"}],
               updateManyFails : {FALSE}]
  /\ store \in {[p \in ProductIds |-> NoProduct], [p \in ProductIds |-> LiveProduct]}
  /\ run = [IdleRun EXCEPT !.pc = "enumerate", !.before = store, !.syncCursor = 2]
  /\ date = 0
  /\ shopifyFormat = {}
  /\ runs = NoRuns
  /\ jobWorker = IdleJob
  /\ executions = NoExecutions
  /\ checkpoints = NoCheckpoints
  /\ generator = IdleGenerator
  /\ jobStates = NoJobStates
  /\ tracker = IdleTracker
  /\ upstream = NoUpstream

SpecGuard == InitGuard /\ [][NextConn]_vars /\ WF_vars(NextConn)

\* =====================================================================
\* Part 3 (specification SpecDate): formatShopifyDate applied to a valid
\* Date.
\* =====================================================================
\* the dates of the model: the seconds 0..MaxSeconds, at their first
\* millisecond, at millisecond 82 and at their last millisecond
Dates == {sec * 1000 + ms : sec \in 0..MaxSeconds, ms \in {0, 82, 999}}

\* formatShopifyDate: isoString.substring(0, 19) keeps the date-time of the
\* UTC string without milliseconds and without Z; "-04:00" is appended
formatShopifyDate(d) ==
  LET isoString == toISOString(d)
      dateWithoutMs == isoString.dateTime
  IN [dateTime |-> dateWithoutMs, ms |-> {},
      offsetMinutes |-> 0 - EdtOffsetHours * 60]

InitDate ==
  /\ now = 1
  /\ shop = [catalog |-> {}, failing |-> {}, authFails |-> FALSE]
  /\ syncState = NoDoc
  /\ products = {}
  /\ syncQueue = <<>>
  /\ productBatchQueue = <<>>
  /\ syncWorker = IdleSyncWorker
  /\ calls = <<>>
  /\ config = IdleConfig
  /\ api = IdleApi
  /\ store = EmptyStore
  /\ run = IdleRun
  /\ date \in Dates
  /\ shopifyFormat = {}
  /\ runs = NoRuns
  /\ jobWorker = IdleJob
  /\ executions = NoExecutions
  /\ checkpoints = NoCheckpoints
  /\ generator = IdleGenerator
  /\ jobStates = NoJobStates
  /\ tracker = IdleTracker
  /\ upstream = NoUpstream

\* const shopifyFormat = formatShopifyDate(date)
FormatShopifyDate ==
  /\ shopifyFormat = {}
  /\ shopifyFormat' = {formatShopifyDate(date)}
  /\ UNCHANGED date
  /\ UNCHANGED <<queueVars, connVars, runs, jobWorker, executions, checkpoints, generator, jobStates, tracker, upstream>>

NextDate == FormatShopifyDate

SpecDate == InitDate /\ [][NextDate]_vars

\* =====================================================================
\* Part 4 (specification SpecRuns): MaxRuns runs of fetchData and the batch
\* worker write the Product documents of one store.  A run enumerates any
\* product ids, in any order; each run takes the steps of its product loop
\* (findOne, then updateOne) one database call at a time, and ends with the
\* cleanup of a full sync.
\* =====================================================================
\* the default of _sync_metadata in ProductSchema
DefaultProduct(time) ==
  [exists |-> TRUE, deleted_at |-> Null, last_action |-> "ADDED",
   first_seen_at |-> time]

\* ProductSchema.pre("save")
PreSave(doc, isNew, time) ==
  IF isNew
    THEN [doc EXCEPT !.last_action = "ADDED", !.first_seen_at = time]
    ELSE [doc EXCEPT !.last_action = "UPDATED"]

\* the documents were written at time 1; the runs start at time 2
InitRuns ==
  /\ now = 2
  /\ shop = [catalog |-> {}, failing |-> {}, authFails |-> FALSE]
  /\ syncState = NoDoc
  /\ products = {}
  /\ syncQueue = <<>>
  /\ productBatchQueue = <<>>
  /\ syncWorker = IdleSyncWorker
  /\ calls = <<>>
  /\ config = IdleConfig
  /\ api = IdleApi
  /\ store \in [ProductIds -> {NoProduct, LiveProduct, DeletedProduct}]
  /\ run = IdleRun
  /\ date = 0
  /\ shopifyFormat = {}
  /\ runs \in [1..MaxRuns ->
                 {[pc |-> "loop", isFullSync |-> f, productId |-> 0,
                   existingProduct |-> NoProduct, processedProductIds |-> {}] :
                    f \in BOOLEAN}]
  /\ jobWorker = IdleJob
  /\ executions = NoExecutions
  /\ checkpoints = NoCheckpoints
  /\ generator = IdleGenerator
  /\ jobStates = NoJobStates
  /\ tracker = IdleTracker
  /\ upstream = NoUpstream

\* what the steps of Part 4 leave alone
runsFrame == <<shop, syncState, products, syncQueue, productBatchQueue,
               syncWorker, calls, config, api, run, dateVars,
               jobWorker, executions, checkpoints, generator, jobStates, tracker, upstream>>

\* time passes between the database calls of the runs
TickRuns ==
  /\ now < MaxTime
  /\ now' = now + 1
  /\ UNCHANGED <<store, runs>>
  /\ UNCHANGED runsFrame

\* run r: existingProduct = await ProductModel.findOne({storeId, productId})
\* for the next product of its batch
RunFindOne(r, p) ==
  /\ runs[r].pc = "loop"
  /\ p \notin runs[r].processedProductIds
  /\ runs' = [runs EXCEPT ![r].pc = "updateOne", ![r].productId = p,
                          ![r].existingProduct = store[p]]
  /\ UNCHANGED <<now, store>>
  /\ UNCHANGED runsFrame

\* run r: transformProduct(shopifyProduct, storeId, existingProduct, cursor)
\* and ProductModel.updateOne(.., {$set: transformedProduct}, {upsert: true});
\* processedProductIds.push
RunUpdateOne(r) ==
  /\ runs[r].pc = "updateOne"
  /\ store' = [store EXCEPT ![runs[r].productId] =
                               Upserted(runs[r].existingProduct, now)]
  /\ runs' = [runs EXCEPT ![r].pc = "loop",
                          ![r].processedProductIds = @ \cup {runs[r].productId}]
  /\ UNCHANGED now
  /\ UNCHANGED runsFrame

\* run r after its last page: the updateMany of a full sync that saved a
\* product marks the documents outside processedProductIds as deleted
RunMarkDeletedProducts(r) ==
  /\ runs[r].pc = "loop"
  /\ store' = IF runs[r].isFullSync /\ runs[r].processedProductIds # {}
                THEN [p \in ProductIds |->
                        IF /\ store[p].exists
                           /\ p \notin runs[r].processedProductIds
                           /\ store[p].deleted_at = Null
                          THEN [store[p] EXCEPT !.deleted_at = now,
                                                !.last_action = "DELETED"]
                          ELSE store[p]]
                ELSE store
  /\ runs' = [runs EXCEPT ![r].pc = "done"]
  /\ UNCHANGED now
  /\ UNCHANGED runsFrame

\* the batch worker of the queue-based sync, for a product without document:
\* ProductModel.create(productData), which saves a new document through the
\* pre-save hook (its updateOne of an existing document sets no
\* _sync_metadata path)
BatchWorkerCreate(p) ==
  /\ \E r \in 1..MaxRuns : runs[r].pc # "done"
  /\ ~store[p].exists
  /\ store' = [store EXCEPT ![p] = PreSave(DefaultProduct(now), TRUE, now)]
  /\ UNCHANGED <<now, runs>>
  /\ UNCHANGED runsFrame

NextRuns ==
  \/ TickRuns
  \/ \E r \in 1..MaxRuns, p \in ProductIds : RunFindOne(r, p)
  \/ \E r \in 1..MaxRuns : RunUpdateOne(r)
  \/ \E r \in 1..MaxRuns : RunMarkDeletedProducts(r)
  \/ \E p \in ProductIds : BatchWorkerCreate(p)

SpecRuns == InitRuns /\ [][NextRuns]_vars

\* =====================================================================
\* Part 5 (specification SpecJob): IntegrationJobWorker.process of
\* workers/IntegrationJobWorker.ts on one JobState document: the status
\* updates around one run of fetchData (the steps of Part 2), the
\* post-processing cleanup of ProductStorage and the catch block.  The
\* request of a page of product ids may reject, which makes fetchData throw.
\* =====================================================================
\* the JobState document of a job whose earlier run completed at time 1
CompletedJobState ==
  [status |-> "COMPLETED", totalRecords |-> 2, recordsSucceeded |-> 2,
   recordsFailed |-> 0, progress |-> 100, lastSyncTime |-> 1]

\* new SyncContextImpl(config).getMetrics()
NewMetrics == [totalRecords |-> 0, recordsSucceeded |-> 0, recordsFailed |-> 0,
               progress |-> 0]

\* syncContext.getMetrics() of the SyncContextImpl that was passed to fetchData
RunMetrics == [totalRecords |-> run.totalRecords,
               recordsSucceeded |-> run.recordsSucceeded,
               recordsFailed |-> run.recordsFailed, progress |-> run.progress]

\* the job was initialized (JobState.findOne); the configuration of the
\* connector carries lastSyncTime of the job, so that the run is a full sync
\* exactly when the job has no lastSyncTime
InitJob ==
  /\ now = 2
  /\ shop = [catalog |-> {}, failing |-> {}, authFails |-> FALSE]
  /\ syncState = NoDoc
  /\ products = {}
  /\ syncQueue = <<>>
  /\ productBatchQueue = <<>>
  /\ syncWorker = IdleSyncWorker
  /\ calls = <<>>
  /\ jobWorker \in {[pc |-> "process", doc |-> d] : d \in {NewJobState, CompletedJobState}}
  /\ config \in {c \in [isFullSync : {jobWorker.doc.lastSyncTime = Null},
                         skipCleanup : BOOLEAN,
                         maxProducts : {1, Infinity},
                         estimatedMaxProducts : {1, EstimatedMaxProducts},
                         detailBatchSize : {1, MaxPageLen},
                         purgeDeletedAfterDays : {0, 1}] :
                    /\ ~c.isFullSync => (~c.skipCleanup /\ c.purgeDeletedAfterDays = 0)
                    /\ c.skipCleanup => c.purgeDeletedAfterDays = 0
                    /\ c.maxProducts = 1 => c.estimatedMaxProducts = EstimatedMaxProducts}
  /\ api \in {a \in [pages : {<<>>} \cup SeqsUpTo(SeqsUpTo(ProductIds, MaxPageLen), MaxPages),
                      fault : [ProductIds -> {"none", "getProduct", "updateOne"}],
                      updateManyFails : BOOLEAN] :
                 a.updateManyFails => (config.isFullSync /\ ~config.skipCleanup
                                       /\ config.purgeDeletedAfterDays = 0)}
  /\ store \in [ProductIds -> {NoProduct, LiveProduct, DeletedProduct}]
  /\ run = [IdleRun EXCEPT !.before = store, !.syncCursor = 2]
  /\ date = 0
  /\ shopifyFormat = {}
  /\ runs = NoRuns
  /\ executions = NoExecutions
  /\ checkpoints = NoCheckpoints
  /\ generator = IdleGenerator
  /\ jobStates = NoJobStates
  /\ tracker = IdleTracker
  /\ upstream = NoUpstream

\* what the steps of the job worker leave alone
jobFrame == <<queueVars, dateVars, runs, executions, checkpoints, generator, jobStates, tracker, upstream>>

\* process(): updateJobState({status: "RUNNING"}), new SyncContextImpl(config)
\* and the call of the connector
JobStart ==
  /\ jobWorker.pc = "process"
  /\ jobWorker' = [jobWorker EXCEPT !.pc = "fetchData", !.doc.status = "RUNNING"]
  /\ run' = [run EXCEPT !.pc = "enumerate"]
  /\ UNCHANGED <<config, api, store>>
  /\ UNCHANGED jobFrame

\* the request of the next page of product ids rejects: the generator
\* rethrows, and so does the outer catch of fetchData
FetchPageThrows ==
  /\ jobWorker.pc = "fetchData"
  /\ run.pc = "enumerate"
  /\ run.page < Len(api.pages)
  /\ run' = [run EXCEPT !.pc = "threw"]
  /\ UNCHANGED <<config, api, store, jobWorker>>
  /\ UNCHANGED jobFrame

\* ProductStorage.cleanupDeletedProducts(syncedProductIds):
\* ProductModel.deleteMany({storeId, productId: {$nin: syncedProductIds}})
cleanupDeletedProducts(st, syncedProductIds) ==
  [p \in ProductIds |-> IF p \notin syncedProductIds THEN NoProduct ELSE st[p]]

\* "For full syncs, if the connector didn't handle cleanup, handle it here":
\* fetchData sets no cleanupPerformed in the metadata
PostProcessingRuns ==
  /\ jobWorker.doc.lastSyncTime = Null
  /\ Len(run.processedProductIds) > 0

\* process() after the connector returned: the post-processing cleanup (an
\* error of deleteMany is caught and logged) and
\* updateJobState({status: "COMPLETED", the metrics, progress: 100,
\* lastSyncTime: new Date()})
JobCompletes ==
  /\ jobWorker.pc = "fetchData"
  /\ run.pc = "done"
  /\ \E deleteManyFails \in BOOLEAN :
       /\ deleteManyFails => PostProcessingRuns
       /\ store' = IF PostProcessingRuns /\ ~deleteManyFails
                     THEN cleanupDeletedProducts(store, Range(run.processedProductIds))
                     ELSE store
  /\ jobWorker' = [pc |-> "completed",
             doc |-> [jobWorker.doc EXCEPT
                        !.status = "COMPLETED",
                        !.totalRecords = RunMetrics.totalRecords,
                        !.recordsSucceeded = RunMetrics.recordsSucceeded,
                        !.recordsFailed = RunMetrics.recordsFailed,
                        !.progress = 100,
                        !.lastSyncTime = now]]
  /\ UNCHANGED <<config, api, run>>
  /\ UNCHANGED jobFrame

\* the updates of the catch block of process(): the metrics are read from a
\* SyncContextImpl and each is spread into the update only when positive
FailedUpdates(doc, metrics) ==
  [doc EXCEPT
     !.status = "FAILED",
     !.progress = IF metrics.progress > 0 THEN metrics.progress ELSE @,
     !.recordsSucceeded = IF metrics.recordsSucceeded > 0
                            THEN metrics.recordsSucceeded ELSE @,
     !.recordsFailed = IF metrics.recordsFailed > 0 THEN metrics.recordsFailed ELSE @,
     !.totalRecords = IF metrics.totalRecords > 0 THEN metrics.totalRecords ELSE @]

\* the catch block of process(): the connector threw;
\* const syncContext = new SyncContextImpl(this.getConnectorConfig()) and
\* updateJobState with the metrics of that context
JobFails ==
  /\ jobWorker.pc = "fetchData"
  /\ run.pc = "threw"
  /\ jobWorker' = [pc |-> "failed", doc |-> FailedUpdates(jobWorker.doc, NewMetrics)]
  /\ UNCHANGED <<config, api, store, run>>
  /\ UNCHANGED jobFrame

NextJob ==
  \/ JobStart
  \/ NextConn
  \/ FetchPageThrows
  \/ JobCompletes
  \/ JobFails

SpecJob == InitJob /\ [][NextJob]_vars

\* =====================================================================
\* Part 6 (specification SpecExec): the executions of IntegrationJobService
\* (src/unnamed/part_006): createExecution, the worker of the "integrations"
\* queue running processExecution, and cancelExecution, at the grain of
\* their writes to the JobExecution document.  The integration job of the
\* executions exists and is enabled.
\* =====================================================================
InitExec ==
  /\ now = 1
  /\ shop = [catalog |-> {}, failing |-> {}, authFails |-> FALSE]
  /\ syncState = NoDoc
  /\ products = {}
  /\ syncQueue = <<>>
  /\ productBatchQueue = <<>>
  /\ syncWorker = IdleSyncWorker
  /\ calls = <<>>
  /\ config = IdleConfig
  /\ api = IdleApi
  /\ store = EmptyStore
  /\ run = IdleRun
  /\ date = 0
  /\ shopifyFormat = {}
  /\ runs = NoRuns
  /\ jobWorker = IdleJob
  /\ executions = NoExecutions
  /\ checkpoints = NoCheckpoints
  /\ generator = IdleGenerator
  /\ jobStates = NoJobStates
  /\ tracker = IdleTracker
  /\ upstream = NoUpstream

\* job.configuration as POST /jobs stores it (config/index.ts:493-506): the
\* credentials; it holds no lastSyncTime
JobConfiguration == [shopName |-> "shop", accessToken |-> "token"]

\* config.key of a plain object: undefined when the key is absent
ConfigGet(cfg, key) == IF key \in DOMAIN cfg THEN cfg[key] ELSE Null

\* the config processExecution builds for the connector:
\* {...job.configuration.toObject(), executionId, jobId,
\*  syncType: execution.syncType, lastSyncCursor: execution.syncCursor}
ConnectorConfig(execution) ==
  [k \in DOMAIN JobConfiguration \cup {"syncType", "lastSyncCursor"} |->
     IF k = "syncType" THEN execution.syncType
     ELSE IF k = "lastSyncCursor" THEN execution.syncCursor
     ELSE JobConfiguration[k]]

\* the connector was not called
NoConnectorRun ==
  [called |-> FALSE, lastSyncCursor |-> Null, updatedAtMin |-> Null,
   needsVerification |-> FALSE]

\* fetchData(syncContext) of the connector: `if (config.lastSyncTime)
\* filters.updatedAtMin = ...` and `needsVerification = !config.lastSyncTime`,
\* `isFullSync = !config.lastSyncTime` for the deletion marking
ConnectorRun(cfg) ==
  [called |-> TRUE,
   lastSyncCursor |-> ConfigGet(cfg, "lastSyncCursor"),
   updatedAtMin |-> IF ConfigGet(cfg, "lastSyncTime") # Null
                      THEN ConfigGet(cfg, "lastSyncTime") ELSE Null,
   needsVerification |-> ConfigGet(cfg, "lastSyncTime") = Null]

\* JobExecution.findOne({jobId, status: "COMPLETED", syncType: {$in: [..]}})
\* .sort({endTime: -1}): the index of the COMPLETED execution that ended
\* last, 0 when there is none
LastCompleted(execs) ==
  LET completed == {e \in DOMAIN execs : execs[e].status = "COMPLETED"}
  IN  IF completed = {} THEN 0
      ELSE CHOOSE e \in completed :
             \A x \in completed : execs[x].endTime <= execs[e].endTime

\* new Date() of a write of processExecution: later than every endTime written
NewDate(execs) ==
  1 + Cardinality({e \in DOMAIN execs : execs[e].endTime # Null})

\* what the steps of the job service leave alone
execFrame == <<queueVars, connVars, dateVars, runs, jobWorker, checkpoints, generator, jobStates, tracker, upstream>>

\* createExecution: new JobExecution({status: "PENDING"}), save, and
\* integrationQueue.add("process-integration", {executionId}, {jobId}).
\* status: the status of the document; queue: the state of its queue job;
\* process: the position of processExecution; cancel: the position and the
\* result of the cancelExecution call for it.
\* syncType and syncCursor are fields of the document (syncCursor: that of
\* the last successful execution, for an incremental one); endTime is Null
\* until processExecution writes it; connector: what the connector was
\* called with and did, see ConnectorRun.
createExecution(syncType) ==
  /\ Len(executions) < MaxExecutions
  /\ LET lastSuccessfulExecution ==
           IF syncType = "incremental" THEN LastCompleted(executions) ELSE 0
     IN executions' = Append(executions,
          [status |-> "PENDING", queue |-> "waiting", process |-> "none",
           cancel |-> "none", syncType |-> syncType,
           syncCursor |-> IF lastSuccessfulExecution = 0 THEN Null
                          ELSE executions[lastSuccessfulExecution].syncCursor,
           endTime |-> Null, connector |-> NoConnectorRun])
  /\ UNCHANGED execFrame

\* the worker of the "integrations" queue (concurrency 1) fetches the job;
\* processExecution: findOne, IntegrationJob.findById,
\* findOneAndUpdate({executionId}, {status: "RUNNING"}), then the connector
\* is called
ProcessExecutionStart(e) ==
  /\ executions[e].queue = "waiting"
  /\ \A x \in DOMAIN executions : executions[x].queue # "active"
  /\ executions' = [executions EXCEPT
        ![e].queue = "active",
        ![e].status = "RUNNING",
        ![e].process = "connector",
        ![e].connector = ConnectorRun(ConnectorConfig(executions[e]))]
  /\ UNCHANGED execFrame

\* processExecution after the connector: it returned
\* (findOneAndUpdate status COMPLETED) or threw (findOneAndUpdate status
\* FAILED in the inner catch), both with endTime: new Date(), the first with
\* syncCursor: metrics.metadata?.syncCursor || new Date().toISOString();
\* processExecution returns and the queue job is completed
ProcessExecutionEnd(e) ==
  /\ executions[e].process = "connector"
  /\ \E connectorThrows \in BOOLEAN :
       executions' = [executions EXCEPT
          ![e].status = IF connectorThrows THEN "FAILED" ELSE "COMPLETED",
          ![e].endTime = NewDate(executions),
          ![e].syncCursor = IF connectorThrows THEN @ ELSE NewDate(executions),
          ![e].process = "done", ![e].queue = "completed"]
  /\ UNCHANGED execFrame

\* cancelExecution: findOne and the status test; an execution that is
\* neither PENDING nor RUNNING is not cancelled (returns false)
CancelExecutionFind(e) ==
  /\ executions[e].cancel = "none"
  /\ executions' = [executions EXCEPT ![e].cancel =
                       IF executions[e].status \in {"PENDING", "RUNNING"}
                         THEN "save" ELSE "false"]
  /\ UNCHANGED execFrame

\* cancelExecution: execution.status = "CANCELLED", save;
\* `if (execution.status === "PENDING") integrationQueue.remove(executionId)`
\* tests the status that was just assigned; returns true
CancelExecutionSave(e) ==
  /\ executions[e].cancel = "save"
  /\ LET execution == [status |-> "CANCELLED"]
     IN executions' = [executions EXCEPT
          ![e].status = execution.status,
          ![e].queue = IF execution.status = "PENDING" /\ @ = "waiting"
                         THEN "removed" ELSE @,
          ![e].cancel = "true"]
  /\ UNCHANGED execFrame

NextExec ==
  \/ \E syncType \in {"full", "incremental"} : createExecution(syncType)
  \/ \E e \in DOMAIN executions : ProcessExecutionStart(e)
  \/ \E e \in DOMAIN executions : ProcessExecutionEnd(e)
  \/ \E e \in DOMAIN executions : CancelExecutionFind(e)
  \/ \E e \in DOMAIN executions : CancelExecutionSave(e)

SpecExec == InitExec /\ [][NextExec]_vars

\* =====================================================================
\* Part 7 (specification SpecCheckpoint): ProductStorage.saveCheckpoint of
\* back-end/src/services/ProductStorage.ts called by the flow of one job:
\* the Checkpoint collection and what the caller gets back.  The write
\* (checkpoint.save()) may fail.
\* =====================================================================
InitCheckpoint ==
  /\ now = 1
  /\ shop = [catalog |-> {}, failing |-> {}, authFails |-> FALSE]
  /\ syncState = NoDoc
  /\ products = {}
  /\ syncQueue = <<>>
  /\ productBatchQueue = <<>>
  /\ syncWorker = IdleSyncWorker
  /\ calls = <<>>
  /\ config = IdleConfig
  /\ api = IdleApi
  /\ store = EmptyStore
  /\ run = IdleRun
  /\ date = 0
  /\ shopifyFormat = {}
  /\ runs = NoRuns
  /\ jobWorker = IdleJob
  /\ executions = NoExecutions
  /\ checkpoints = NoCheckpoints
  /\ generator = IdleGenerator
  /\ jobStates = NoJobStates
  /\ tracker = IdleTracker
  /\ upstream = NoUpstream

\* the processing stages a caller passes
ProcessingStages == {"fetching", "processing"}

\* saveCheckpoint(jobId, lastProcessedId, processingStage): new Checkpoint
\* with timestamp new Date(), checkpoint.save(); the catch block logs
\* "Failed to save checkpoint" and throws the error again
saveCheckpoint(lastProcessedId, processingStage, saveFails) ==
  /\ checkpoints.callsMade < MaxCheckpoints
  /\ checkpoints' =
       IF saveFails
         THEN [checkpoints EXCEPT !.callsMade = @ + 1, !.outcome = "threw"]
         ELSE [collection |-> Append(checkpoints.collection,
                                     [lastProcessedId |-> lastProcessedId,
                                      processingStage |-> processingStage,
                                      timestamp |-> checkpoints.callsMade + 1]),
               callsMade |-> checkpoints.callsMade + 1,
               outcome |-> "returned"]
  /\ UNCHANGED <<queueVars, connVars, dateVars, runs, jobWorker, executions, generator, jobStates, tracker, upstream>>

NextCheckpoint ==
  \E lastProcessedId \in ProductIds, processingStage \in ProcessingStages,
     saveFails \in BOOLEAN :
    saveCheckpoint(lastProcessedId, processingStage, saveFails)

SpecCheckpoint == InitCheckpoint /\ [][NextCheckpoint]_vars

\* =====================================================================
\* Part 8 (specification SpecGen): getProductIdsGenerator of the Shopify
\* client (src/unnamed/part_007) drained by a `for await` loop: the requests
\* it sends, the batches it yields and how it ends.  A string is the
\* sequence of its parts, "/" being one part.
\* =====================================================================

\* "gid://shopify/Product/1234567890"
Gid(p) == <<"gid:", "/", "/", "shopify", "/", "Product", "/", ToString(p)>>

\* String.prototype.split(separator)
RECURSIVE Split(_, _)
Split(str, separator) ==
  IF str = <<>> THEN << <<>> >>
  ELSE LET rest == Split(Tail(str), separator)
       IN  IF Head(str) = separator
             THEN << <<>> >> \o rest
             ELSE << <<Head(str)>> \o Head(rest) >> \o Tail(rest)

\* Array.prototype.pop() of a non-empty array: its last element
Pop(array) == array[Len(array)]

\* the values of pageInfo.endCursor
Cursors == {Null} \cup (1..MaxCursor)

\* the products of a page: none, or up to MaxPageLen products counted down
\* from MaxProduct
PageProducts ==
  {<<>>} \cup {[i \in 1..k |-> ((MaxProduct - i) % MaxProduct) + 1] : k \in 1..MaxPageLen}

\* the pages the API can hold: the products of the page and its pageInfo
ServerPages ==
  [products : PageProducts,
   pageInfo : [hasNextPage : BOOLEAN, endCursor : Cursors]]

\* the response of client.request for a page
ProductsResponse(page) ==
  [data |-> [products |->
     [pageInfo |-> page.pageInfo,
      edges |-> [i \in 1..Len(page.products) |->
                   [node |-> [id |-> Gid(page.products[i])]]]]]]

\* response.data.products.edges.map(edge => edge.node.id.split("/").pop())
ExtractProductIds(response) ==
  LET edges == response.data.products.edges
  IN  [i \in 1..Len(edges) |-> Pop(Split(edges[i].node.id, "/"))]

\* cursor = response.data.products.pageInfo.endCursor, stale variant: the
\* cursor is left as it was
NextCursor_Stale(response) == generator.cursor

\* cursor = response.data.products.pageInfo.endCursor
NextCursor(response) == response.data.products.pageInfo.endCursor

InitGen ==
  /\ now = 1
  /\ shop = [catalog |-> {}, failing |-> {}, authFails |-> FALSE]
  /\ syncState = NoDoc
  /\ products = {}
  /\ syncQueue = <<>>
  /\ productBatchQueue = <<>>
  /\ syncWorker = IdleSyncWorker
  /\ calls = <<>>
  /\ config = IdleConfig
  /\ api = IdleApi
  /\ store = EmptyStore
  /\ run = IdleRun
  /\ date = 0
  /\ shopifyFormat = {}
  /\ runs = NoRuns
  /\ jobWorker = IdleJob
  /\ executions = NoExecutions
  /\ checkpoints = NoCheckpoints
  \* let hasNextPage = true; let cursor = null
  /\ \E server \in SeqsUpTo(ServerPages, MaxGenPages) :
       generator = [IdleGenerator EXCEPT !.server = server, !.pc = "loop",
                                         !.hasNextPage = TRUE]
  /\ jobStates = NoJobStates
  /\ tracker = IdleTracker
  /\ upstream = NoUpstream

genFrame ==
  UNCHANGED <<queueVars, connVars, dateVars, runs, jobWorker, executions, checkpoints,
              jobStates, tracker, upstream>>

\* while (hasNextPage): client.request with after: cursor resolves with the
\* next page of the API; the ids are extracted and yielded, and the generator
\* is suspended at the yield
RequestPage ==
  /\ generator.pc = "loop"
  /\ generator.hasNextPage
  /\ Len(generator.requests) < Len(generator.server)
  /\ LET response == ProductsResponse(generator.server[Len(generator.requests) + 1])
         productIds == ExtractProductIds(response)
     IN  generator' = [generator EXCEPT
                         !.requests = Append(@, generator.cursor),
                         !.response = response,
                         !.batches = Append(@, productIds),
                         !.pc = "yielded"]
  /\ genFrame

\* client.request rejects (or the API has no page left to answer with): the
\* catch block logs the error and throws it again
RequestThrows ==
  /\ generator.pc = "loop"
  /\ generator.hasNextPage
  /\ generator' = [generator EXCEPT
                     !.requests = Append(@, generator.cursor),
                     !.pc = "threw"]
  /\ genFrame

\* the consumer asks for the next value: the generator goes on after the
\* yield, "Update pagination info for next iteration"
ResumeAfterYield ==
  /\ generator.pc = "yielded"
  /\ generator' = [generator EXCEPT
                     !.hasNextPage = generator.response.data.products.pageInfo.hasNextPage,
                     !.cursor = NextCursor(generator.response),
                     !.pc = "loop"]
  /\ genFrame

\* the consumer leaves its for await loop (break): the generator is closed at
\* the yield
ReturnAtYield ==
  /\ generator.pc = "yielded"
  /\ generator' = [generator EXCEPT !.pc = "returned"]
  /\ genFrame

\* while (hasNextPage) is false: "Completed product ID retrieval"
GeneratorCompletes ==
  /\ generator.pc = "loop"
  /\ ~generator.hasNextPage
  /\ generator' = [generator EXCEPT !.pc = "done"]
  /\ genFrame

NextGen ==
  \/ RequestPage
  \/ RequestThrows
  \/ ResumeAfterYield
  \/ ReturnAtYield
  \/ GeneratorCompletes

\* the generator and its consumer are async code: each goes on whenever the
\* promise it awaits settles
SpecGen == InitGen /\ [][NextGen]_vars /\ WF_vars(NextGen)

\* =====================================================================
\* Part 9 (specification SpecPrune): the JobState collection under
\* IntegrationJobProcessor (src/queues/IntegrationJobProcessor.ts):
\* createIncrementalJob, the end of the job in the worker (COMPLETED with
\* lastSyncTime, or FAILED) and pruneOldJobs, with dates counted in days.
\* =====================================================================
InitPrune ==
  /\ now = 1
  /\ shop = [catalog |-> {}, failing |-> {}, authFails |-> FALSE]
  /\ syncState = NoDoc
  /\ products = {}
  /\ syncQueue = <<>>
  /\ productBatchQueue = <<>>
  /\ syncWorker = IdleSyncWorker
  /\ calls = <<>>
  /\ config = IdleConfig
  /\ api = IdleApi
  /\ store = EmptyStore
  /\ run = IdleRun
  /\ date = 0
  /\ shopifyFormat = {}
  /\ runs = NoRuns
  /\ jobWorker = IdleJob
  /\ executions = NoExecutions
  /\ checkpoints = NoCheckpoints
  /\ generator = IdleGenerator
  /\ jobStates = NoJobStates
  /\ tracker = IdleTracker
  /\ upstream = NoUpstream

pruneFrame ==
  UNCHANGED <<queueVars, connVars, dateVars, runs, jobWorker, executions, checkpoints,
              generator, tracker, upstream>>

\* the destination types of the jobs; their source type is "shopify"
DestinationTypes == {"mongodb", "file"}

\* JobState.findOne({sourceType, destinationType, status: "COMPLETED",
\* lastSyncTime: {$ne: null}}).sort({lastSyncTime: -1}): the lastSyncTime of
\* the document found, Null when there is none
PreviousSyncTime(docs, destinationType) ==
  LET candidates == {d \in docs : /\ d.destinationType = destinationType
                                  /\ d.status = "COMPLETED"
                                  /\ d.lastSyncTime # Null}
  IN  IF candidates = {} THEN Null
      ELSE CHOOSE t \in {d.lastSyncTime : d \in candidates} :
             \A d \in candidates : d.lastSyncTime <= t

\* createIncrementalJob(sourceType, destinationType): new JobState with
\* status CREATED and the lastSyncTime of the previous job, save
createIncrementalJob(destinationType) ==
  /\ jobStates.created < MaxJobStates
  /\ jobStates' = [jobStates EXCEPT
        !.created = @ + 1,
        !.docs = @ \cup {[_id |-> jobStates.created + 1,
                          destinationType |-> destinationType,
                          status |-> "CREATED",
                          lastSyncTime |-> PreviousSyncTime(jobStates.docs, destinationType),
                          updatedAt |-> jobStates.today]}]
  /\ pruneFrame

\* the worker ends the job: updateJobState({status: "COMPLETED", ...,
\* lastSyncTime: new Date()}), or {status: "FAILED"} in its catch block
\* (findOneAndUpdate: no document when the JobState was pruned)
JobEnds(d, status) ==
  /\ d \in jobStates.docs
  /\ d.status = "CREATED"
  /\ jobStates' = [jobStates EXCEPT !.docs = (@ \ {d}) \cup
        {[d EXCEPT !.status = status,
                   !.lastSyncTime = IF status = "COMPLETED" THEN jobStates.today ELSE @,
                   !.updatedAt = jobStates.today]}]
  /\ pruneFrame

\* a day passes
NextDay ==
  /\ jobStates.today < MaxDays
  /\ jobStates' = [jobStates EXCEPT !.today = @ + 1]
  /\ pruneFrame

\* find({status: "COMPLETED"}).sort({updatedAt: -1}).limit(1).select("_id"):
\* the _id of one COMPLETED document that was updated last, in a set
LatestSuccessfulJobs(docs) ==
  LET completed == {d \in docs : d.status = "COMPLETED"}
  IN  {{d._id} : d \in {c \in completed :
                          \A x \in completed : x.updatedAt <= c.updatedAt}}

\* pruneOldJobs(daysToKeep): deleteMany({_id: {$nin: idsToKeep},
\* updatedAt: {$lt: cutoffDate}})
pruneOldJobs(daysToKeep) ==
  /\ jobStates.docs # {}
  /\ LET cutoffDate == jobStates.today - daysToKeep
     IN  \E idsToKeep \in (IF LatestSuccessfulJobs(jobStates.docs) = {}
                             THEN {{}} ELSE LatestSuccessfulJobs(jobStates.docs)) :
           jobStates' = [jobStates EXCEPT !.docs =
              {d \in @ : ~(d._id \notin idsToKeep /\ d.updatedAt < cutoffDate)}]
  /\ pruneFrame

NextPrune ==
  \/ \E destinationType \in DestinationTypes : createIncrementalJob(destinationType)
  \/ \E d \in jobStates.docs, status \in {"COMPLETED", "FAILED"} : JobEnds(d, status)
  \/ NextDay
  \/ \E daysToKeep \in 0..MaxDays : pruneOldJobs(daysToKeep)

SpecPrune == InitPrune /\ [][NextPrune]_vars

\* =====================================================================
\* Part 10 (specification SpecWatermark): successive runs of the queue-based
\* sync (src/unnamed/part_015) against a shop whose products are modified
\* while the runs go on: the lower bound a run enumerates with
\* (updated_at:>=lastSyncedAt, src/unnamed/part_016), the product versions
\* the batch worker fetches and the lastSyncedAt written when the run
\* finalizes.  One batch job per product; no call fails.
\* =====================================================================
InitWatermark ==
  /\ now = 1
  /\ shop = [catalog |-> {}, failing |-> {}, authFails |-> FALSE]
  /\ syncState = NoDoc
  /\ products = {}
  /\ syncQueue = <<>>
  /\ productBatchQueue = <<>>
  /\ syncWorker = IdleSyncWorker
  /\ calls = <<>>
  /\ config = IdleConfig
  /\ api = IdleApi
  /\ store = EmptyStore
  /\ run = IdleRun
  /\ date = 0
  /\ shopifyFormat = {}
  /\ runs = NoRuns
  /\ jobWorker = IdleJob
  /\ executions = NoExecutions
  /\ checkpoints = NoCheckpoints
  /\ generator = IdleGenerator
  /\ jobStates = NoJobStates
  /\ tracker = IdleTracker
  /\ upstream = NoUpstream

watermarkFrame ==
  UNCHANGED <<queueVars, connVars, dateVars, runs, jobWorker, executions, checkpoints,
              generator, jobStates, tracker>>

\* time passes
ClockTicks ==
  /\ upstream.clock < MaxTime
  /\ upstream' = [upstream EXCEPT !.clock = @ + 1]
  /\ watermarkFrame

\* a merchant modifies a product: Shopify sets its updated_at
ProductModified(p) ==
  /\ upstream.updatedAt[p] # upstream.clock
  /\ upstream' = [upstream EXCEPT
        !.updatedAt[p] = upstream.clock,
        !.modifiedAfterFetch =
           IF upstream.isInProgress /\ p \in upstream.productIds \ upstream.pending
             THEN @ \cup {p} ELSE @]
  /\ watermarkFrame

\* the query of getProductIds: updated_at:>=updatedAtMin when the filter is set
UpdatedSince(updatedAt, updatedAtMin) ==
  {p \in ProductIds : updatedAtMin = Null \/ updatedAt[p] >= updatedAtMin}

\* queueProductSync and the product-sync worker: isInProgress = true,
\* incrementalFilters.updatedAtMin = lastSyncedAt unless forceFullSync,
\* getProductIds, one batch job per slice of productIds
RunStarts(forceFullSync) ==
  /\ ~upstream.isInProgress
  /\ LET updatedAtMin ==
           IF ~forceFullSync /\ upstream.lastSyncedAt # Null
             THEN upstream.lastSyncedAt ELSE Null
         productIds == UpdatedSince(upstream.updatedAt, updatedAtMin)
     IN upstream' = [upstream EXCEPT
          !.isInProgress = TRUE,
          !.updatedAtMin = updatedAtMin,
          !.productIds = productIds,
          !.pending = productIds,
          !.modifiedAfterFetch = {}]
  /\ watermarkFrame

\* the batch worker processes the batch of a product: shopify.getProduct and
\* the Product document written with shopifyUpdatedAt = updated_at
BatchProcessed(p) ==
  /\ upstream.isInProgress
  /\ p \in upstream.pending
  /\ upstream' = [upstream EXCEPT
        !.pending = @ \ {p},
        !.shopifyUpdatedAt[p] = upstream.updatedAt[p]]
  /\ watermarkFrame

\* the "completed" event of the last batch job: isInProgress = false,
\* lastSyncedAt = new Date()
RunFinalized ==
  /\ upstream.isInProgress
  /\ upstream.productIds # {}
  /\ upstream.pending = {}
  /\ upstream' = [upstream EXCEPT
        !.isInProgress = FALSE,
        !.lastSyncedAt = upstream.clock]
  /\ watermarkFrame

NextWatermark ==
  \/ ClockTicks
  \/ \E p \in ProductIds : ProductModified(p)
  \/ \E forceFullSync \in BOOLEAN : RunStarts(forceFullSync)
  \/ \E p \in ProductIds : BatchProcessed(p)
  \/ RunFinalized

SpecWatermark == InitWatermark /\ [][NextWatermark]_vars

\* =====================================================================
\* Part 11 (specification SpecTracker): one job of the job tracker
\* (src/src/services/job-tracker.ts) with up to MaxTasks product tasks in the
\* "product-processing" queue (src/src/services/queue.ts), processed by
\* WorkerService.processProduct (src/src/workers/product-worker.ts) with
\* concurrency 10.  Every call of updateProductStatus is two steps, its
\* findOne and its save, so that the calls of addBatch, of the worker
\* attempts and of the queue event handlers interleave.  The result and the
\* error of a product are not part of the model.
\* =====================================================================
InitTracker ==
  /\ now = 1
  /\ shop = [catalog |-> {}, failing |-> {}, authFails |-> FALSE]
  /\ syncState = NoDoc
  /\ products = {}
  /\ syncQueue = <<>>
  /\ productBatchQueue = <<>>
  /\ syncWorker = IdleSyncWorker
  /\ calls = <<>>
  /\ config = IdleConfig
  /\ api = IdleApi
  /\ store = EmptyStore
  /\ run = IdleRun
  /\ date = 0
  /\ shopifyFormat = {}
  /\ runs = NoRuns
  /\ jobWorker = IdleJob
  /\ executions = NoExecutions
  /\ checkpoints = NoCheckpoints
  /\ generator = IdleGenerator
  /\ jobStates = NoJobStates
  /\ tracker = IdleTracker
  /\ upstream = NoUpstream

trackerFrame ==
  UNCHANGED <<queueVars, connVars, dateVars, runs, jobWorker, executions, checkpoints,
              generator, jobStates, upstream>>

\* the document of a call of updateProductStatus that has changed nothing:
\* no path is modified.  push: an element was pushed to products; index,
\* setStatus: the status of products[index] was changed; v: the __v the
\* save sends with that change; completedProducts, failedProducts, jobStatus:
\* the value the path was changed to (NotModified: it was not)
NotModified == -1
NoChanges ==
  [push |-> FALSE, index |-> 0, setStatus |-> FALSE, v |-> 0,
   completedProducts |-> NotModified, failedProducts |-> NotModified,
   jobStatus |-> "none"]

\* no call of updateProductStatus in flight.  pc: "find" before the findOne,
\* "save" between the findOne and the save; status: the status the call
\* writes; doc: the modified paths of the document the call holds
NoCall == [pc |-> "none", status |-> "none", doc |-> NoChanges]

\* a call of updateProductStatus that has not read the document yet
Calling(status) == [pc |-> "find", status |-> status, doc |-> NoChanges]

\* a task of the queue after addBulk.  state, attemptsMade: the BullMQ job;
\* queued: the updateProductStatus(.., "queued") of addBatch; worker: the
\* call of the running attempt of processProduct ("work": the attempt is at
\* the Shopify calls; "catch": an await of the try block threw); event: the
\* queue event of the job; handler: the call of its event handler
NewTask ==
  [state |-> "waiting", attemptsMade |-> 0, queued |-> Calling("queued"),
   worker |-> NoCall, event |-> "none", handler |-> NoCall]

\* job.products.findIndex((p) => p.productId === productId); 0 stands for -1
FindIndex(prods, productId) ==
  LET found == {i \in DOMAIN prods : prods[i].productId = productId}
  IN IF found = {} THEN 0 ELSE CHOOSE i \in found : \A k \in found : i <= k

\* job.products.filter((p) => p.status === status).length
CountStatus(prods, status) ==
  Cardinality({i \in DOMAIN prods : prods[i].status = status})

\* updateProductStatus between its findOne and its save: the changes to the
\* loaded document
updateProductStatus(job, productId, status) ==
  LET productIndex == FindIndex(job.products, productId)
      prods == IF productIndex = 0
                 THEN Append(job.products, [productId |-> productId, status |-> status])
                 ELSE [job.products EXCEPT ![productIndex].status = status]
      completedProducts == CountStatus(prods, "completed")
      failedProducts == CountStatus(prods, "failed")
  IN [job EXCEPT
        !.products = prods,
        !.completedProducts = completedProducts,
        !.failedProducts = failedProducts,
        !.status = IF completedProducts + failedProducts = job.totalProducts
                     THEN IF failedProducts > 0 THEN "failed" ELSE "completed"
                     ELSE IF job.status = "queued" /\ CountStatus(prods, "processing") > 0
                       THEN "processing"
                       ELSE @]

\* the paths of the document that updateProductStatus has modified when it
\* reaches job.save(): a path set to the value it had is not modified
ModifiedPaths(loaded, productId, status) ==
  LET productIndex == FindIndex(loaded.products, productId)
      local == updateProductStatus(loaded, productId, status)
  IN [push |-> productIndex = 0,
      index |-> productIndex,
      setStatus |-> productIndex # 0 /\ loaded.products[productIndex].status # status,
      v |-> IF productIndex # 0 /\ loaded.products[productIndex].status # status
              THEN loaded.v ELSE 0,
      completedProducts |->
        IF local.completedProducts # loaded.completedProducts
          THEN local.completedProducts ELSE NotModified,
      failedProducts |->
        IF local.failedProducts # loaded.failedProducts
          THEN local.failedProducts ELSE NotModified,
      jobStatus |-> IF local.status # loaded.status THEN local.status ELSE "none"]

\* a call of updateProductStatus from its findOne, which returned loaded, to
\* its save: the changes are made without an await in between
Loaded(productId, status, loaded) ==
  [pc |-> "save", status |-> status,
   doc |-> ModifiedPaths(loaded, productId, status)]

\* job.save() rejects with a VersionError: the call changed the status of
\* an element of products ($set of products.i.status, sent with the __v
\* that was loaded) and an element was pushed since the findOne
VersionError(db, doc) == doc.setStatus /\ db.v # doc.v

\* job.save() of updateProductStatus on the stored document db: the
\* modified paths are written, a new element by $push (which increments
\* __v), the status of an element by $set at its index
SaveJob(db, doc, productId, status) ==
  [db EXCEPT
     !.products =
        IF doc.push
          THEN Append(@, [productId |-> productId, status |-> status])
          ELSE IF doc.setStatus
            THEN [@ EXCEPT ![doc.index].status = status]
            ELSE @,
     !.v = IF doc.push THEN @ + 1 ELSE @,
     !.completedProducts =
        IF doc.completedProducts # NotModified THEN doc.completedProducts ELSE @,
     !.failedProducts =
        IF doc.failedProducts # NotModified THEN doc.failedProducts ELSE @,
     !.status = IF doc.jobStatus # "none" THEN doc.jobStatus ELSE @]

\* JobTracker.createJob of the processing route: totalProducts is the number
\* of product ids (the route answers 400 for none), status "queued"
createJob(totalProducts) ==
  /\ ~tracker.job.exists
  /\ tracker' = [tracker EXCEPT
       !.job = [NoJob EXCEPT !.exists = TRUE, !.totalProducts = totalProducts,
                             !.status = "queued"]]
  /\ trackerFrame

\* QueueService.addBatch up to the status updates: productQueue.addBulk, one
\* task per product id, and the updateProductStatus(.., "queued") calls are
\* started
addBatch ==
  /\ tracker.job.exists
  /\ tracker.tasks = <<>>
  /\ tracker' = [tracker EXCEPT
       !.tasks = [p \in 1..tracker.job.totalProducts |-> NewTask]]
  /\ trackerFrame

\* findOne of the updateProductStatus(.., "queued") of addBatch
AddBatchFind(p) ==
  /\ tracker.tasks[p].queued.pc = "find"
  /\ tracker' = [tracker EXCEPT
       !.tasks[p].queued = Loaded(p, "queued", tracker.job)]
  /\ trackerFrame

\* the rest of the updateProductStatus(.., "queued") of addBatch; a
\* VersionError rejects the Promise.all of addBatch
AddBatchSave(p) ==
  /\ tracker.tasks[p].queued.pc = "save"
  /\ LET call == tracker.tasks[p].queued
     IN tracker' = [tracker EXCEPT
          !.job = IF VersionError(@, call.doc)
                    THEN @ ELSE SaveJob(@, call.doc, p, call.status),
          !.tasks[p].queued = NoCall]
  /\ trackerFrame

\* the worker takes a waiting task: processProduct up to the findOne of
\* updateProductStatus(.., "processing")
ProcessProductStart(p) ==
  /\ tracker.tasks[p].state = "waiting"
  /\ tracker' = [tracker EXCEPT
       !.tasks[p].state = "active",
       !.tasks[p].attemptsMade = @ + 1,
       !.tasks[p].worker = Loaded(p, "processing", tracker.job)]
  /\ trackerFrame

\* BullMQ after an attempt of a task threw: retry while attempts remain, else
\* failed with its queue event
AfterTaskThrow(task) ==
  IF task.attemptsMade < Attempts
    THEN [task EXCEPT !.state = "waiting", !.worker = NoCall]
    ELSE [task EXCEPT !.state = "failed", !.worker = NoCall,
                      !.event = "failed", !.handler = Calling("failed")]

\* the save of the call of the attempt.  "processing": on to the Shopify
\* calls; "completed": processProduct returns and the queue emits
\* "completed"; "failed": the catch block rethrows.  A VersionError of a
\* call of the try block goes to the catch block.
ProcessProductSave(p) ==
  /\ tracker.tasks[p].worker.pc = "save"
  /\ LET call == tracker.tasks[p].worker
         task == tracker.tasks[p]
         threw == VersionError(tracker.job, call.doc)
         saved == IF threw THEN tracker.job
                  ELSE SaveJob(tracker.job, call.doc, p, call.status)
     IN tracker' = [tracker EXCEPT
          !.job = saved,
          !.tasks[p] =
             IF call.status = "failed" THEN AfterTaskThrow(task)
             ELSE IF threw THEN [task EXCEPT !.worker.pc = "catch",
                                             !.worker.doc = NoChanges]
             ELSE IF call.status = "processing"
               THEN [task EXCEPT !.worker.pc = "work", !.worker.doc = NoChanges]
               ELSE [task EXCEPT !.state = "completed", !.worker = NoCall,
                                 !.event = "completed",
                                 !.handler = Calling("completed")]]
  /\ trackerFrame

\* the Shopify calls of the attempt and the findOne of the next call: the
\* action succeeded (updateProductStatus(.., "completed")) or it threw
\* (catch block, updateProductStatus(.., "failed"))
ProcessProductWork(p, succeeded) ==
  /\ tracker.tasks[p].worker.pc = "work"
  /\ tracker' = [tracker EXCEPT
       !.tasks[p].worker =
          Loaded(p, IF succeeded THEN "completed" ELSE "failed", tracker.job)]
  /\ trackerFrame

\* catch block after a call of the try block threw: the findOne of
\* updateProductStatus(.., "failed")
ProcessProductCatch(p) ==
  /\ tracker.tasks[p].worker.pc = "catch"
  /\ tracker' = [tracker EXCEPT
       !.tasks[p].worker = Loaded(p, "failed", tracker.job)]
  /\ trackerFrame

\* queueEvents.on("completed") / on("failed"): getJob and the findOne of
\* updateProductStatus with the status of the event
QueueEventFind(p) ==
  /\ tracker.tasks[p].handler.pc = "find"
  /\ tracker' = [tracker EXCEPT
       !.tasks[p].handler = Loaded(p, tracker.tasks[p].event, tracker.job)]
  /\ trackerFrame

\* the rest of the updateProductStatus of the event handler
QueueEventSave(p) ==
  /\ tracker.tasks[p].handler.pc = "save"
  /\ LET call == tracker.tasks[p].handler
     IN tracker' = [tracker EXCEPT
          !.job = IF VersionError(@, call.doc)
                    THEN @ ELSE SaveJob(@, call.doc, p, call.status),
          !.tasks[p].handler = NoCall]
  /\ trackerFrame

NextTracker ==
  \/ \E totalProducts \in 1..MaxTasks : createJob(totalProducts)
  \/ addBatch
  \/ \E p \in DOMAIN tracker.tasks : AddBatchFind(p)
  \/ \E p \in DOMAIN tracker.tasks : AddBatchSave(p)
  \/ \E p \in DOMAIN tracker.tasks : ProcessProductStart(p)
  \/ \E p \in DOMAIN tracker.tasks : ProcessProductSave(p)
  \/ \E p \in DOMAIN tracker.tasks, succeeded \in BOOLEAN : ProcessProductWork(p, succeeded)
  \/ \E p \in DOMAIN tracker.tasks : ProcessProductCatch(p)
  \/ \E p \in DOMAIN tracker.tasks : QueueEventFind(p)
  \/ \E p \in DOMAIN tracker.tasks : QueueEventSave(p)

SpecTracker == InitTracker /\ [][NextTracker]_vars

\* ----------------------------------------------------------------- claims
\* the instant a date string denotes, in milliseconds since the epoch: its
\* date-time is the local time at its offset from UTC
InstantOf(str) ==
  (str.dateTime - str.offsetMinutes * 60) * 1000
    + (IF str.ms = {} THEN 0 ELSE CHOOSE ms \in str.ms : TRUE)

\* the invocation of queueProductSync that took its decision in this step
DecidedCall == calls'[Len(calls')]

\* the runs dispatched so far: the invocations that added a product-sync job
Dispatched == {c \in DOMAIN calls : calls[c].result = "queued"}

\* this step wrote a new failure message into lastSyncError
ErrorWritten ==
  /\ syncState.exists
  /\ syncState'.lastSyncError # syncState.lastSyncError
  /\ syncState'.lastSyncError # NoError

\* C1: lastSyncedAt advances only on success.  A step that ends or resets a
\* run as failed (it writes lastSyncError: the enumeration threw, the run was
\* finalized with failed batch jobs, or it was force-finalized by the stale
\* reset, cleanupStuckSyncJobs or /fix-stuck-syncs) leaves lastSyncedAt as it
\* was.
C1_FailureKeepsLastSyncedAt ==
  [][ErrorWritten => syncState'.lastSyncedAt = syncState.lastSyncedAt]_vars

\* C2: in the stored document, batchJobs.completed + batchJobs.failed never
\* exceeds batchJobs.total.
C2_CountersWithinTotal ==
  (syncState.exists /\ IsObjectFormat(syncState.batchJobs))
    => syncState.batchJobs.completed + syncState.batchJobs.failed
         <= syncState.batchJobs.total

\* C3: each run is finalized exactly once: totalSyncs, which every
\* finalization increments, never exceeds the number of runs dispatched.
C3_FinalizedOncePerRun ==
  syncState.exists => syncState.totalSyncs <= Cardinality(Dispatched)

\* nothing is left to run: no invocation is between its check and its save,
\* every product-sync job and every batch job is completed or failed, and
\* every batch queue event has been handled
Quiescent ==
  /\ \A c \in DOMAIN calls : calls[c].pc = "done"
  /\ syncWorker.pc = "idle"
  /\ \A j \in DOMAIN syncQueue : syncQueue[j].state \in {"completed", "failed"}
  /\ \A b \in DOMAIN productBatchQueue :
       /\ productBatchQueue[b].state \in {"completed", "failed"}
       /\ productBatchQueue[b].handled

\* C4: a dispatched run finalizes once all its batch jobs are terminal,
\* without waiting for the stale timeout: when batch jobs were added and
\* nothing is left to run, the run is no longer in progress.
C4_TerminalBatchesFinalize ==
  (Quiescent /\ Len(productBatchQueue) > 0 /\ syncState.exists)
    => ~syncState.isInProgress

\* C5: at most one run is in progress per (storeId, syncType): no invocation
\* of queueProductSync dispatches a run (adds a product-sync job) while the
\* stored document shows a run in progress that is not stale.
C5_NoSecondRunDispatched ==
  [][Len(syncQueue') = Len(syncQueue) + 1
       => ~(syncState.exists /\ syncState.isInProgress /\ ~IsStale(syncState))]_vars

\* C6: a queueProductSync that finds a run in progress whose startedAt is at
\* most 60 minutes old throws "A product sync is already in progress for this
\* store" (the route answers 409), adds no job to the product-sync queue and
\* does not reset lastSyncStats (the SyncState document is left as it was).
C6_FreshRunRejects ==
  [][(/\ Len(calls') = Len(calls) + 1
      /\ syncState.exists /\ syncState.isInProgress
      /\ syncState.startedAt # Null
      /\ ElapsedMinutes(syncState.startedAt) <= StaleMinutes)
     => (/\ DecidedCall.result = "conflict"
         /\ syncQueue' = syncQueue
         /\ syncState' = syncState)]_vars

\* a request was rejected while the run it met was in progress
C6_Witness ==
  /\ \E c \in DOMAIN calls : calls[c].result = "conflict"
  /\ syncState.exists /\ syncState.isInProgress
  /\ ElapsedMinutes(syncState.startedAt) <= StaleMinutes

\* the invocations between their check and their save that found a stale run
FoundStale == {c \in DOMAIN calls : calls[c].pc = "save" /\ calls[c].loaded.isInProgress}

\* C7: a queueProductSync that finds a run in progress whose startedAt is
\* more than 60 minutes old does not throw; its save resets that run with
\* the timeout message in lastSyncError and starts a new run: fresh
\* startedAt, zeroed counters, empty errors, isInProgress = true, and a
\* product-sync job is added.
C7_StaleRunIsReplaced ==
  [][/\ (/\ Len(calls') = Len(calls) + 1
          /\ syncState.exists /\ syncState.isInProgress
          /\ syncState.startedAt # Null
          /\ ElapsedMinutes(syncState.startedAt) > StaleMinutes)
         => (DecidedCall.pc = "save" /\ DecidedCall.doc.startedAt = now)
     /\ \A c \in FoundStale :
          calls'[c].pc = "done"
            => /\ calls'[c].result = "queued"
               /\ Len(syncQueue') = Len(syncQueue) + 1
               /\ syncQueue'[Len(syncQueue')].state = "waiting"
               /\ syncState'.isInProgress
               /\ syncState'.lastSyncError = [kind |-> "timeout", n |-> 0]
               /\ syncState'.startedAt = calls[c].doc.startedAt
               /\ syncState'.completedAt = Null
               /\ syncState'.productsProcessed = 0
               /\ syncState'.productsCreated = 0
               /\ syncState'.productsUpdated = 0
               /\ syncState'.productsDeleted = 0
               /\ syncState'.errors = <<>>
               /\ syncState'.batchJobs = BatchJobsArray]_vars

\* a second run was dispatched over a stale one and is in progress, fresh
C7_Witness ==
  /\ Cardinality(Dispatched) >= 2
  /\ syncState.exists /\ syncState.isInProgress
  /\ syncState.lastSyncError = [kind |-> "timeout", n |-> 0]
  /\ syncState.startedAt = now
  /\ syncState.errors = <<>>

\* the products that were in the store, not marked deleted, when the connector
\* run started and whose id no page of the run has returned
AbsentFromEnumeration ==
  {p \in ProductIds : /\ run.before[p].exists
                       /\ run.before[p].deleted_at = Null
                       /\ p \notin EnumeratedIds}

IsMarkedDeleted(product) ==
  product.deleted_at # Null /\ product.last_action = "DELETED"

C9_EnumeratedNeverMarkedDeleted ==
  [][\A p \in EnumeratedIds :
       IsMarkedDeleted(store'[p]) => IsMarkedDeleted(store[p])]_vars

\* the products a completed forceFullSync batch job has processed
ProcessedByBatch ==
  UNION {Range(productBatchQueue[b].productIds) :
           b \in {x \in DOMAIN productBatchQueue :
                    /\ productBatchQueue[x].forceFullSync
                    /\ productBatchQueue[x].state = "completed"}}

\* C10: in a forceFullSync run a product that a batch job has successfully
\* processed is not removed from the store when the run is finalized.
C10_ProcessedProductsKept ==
  [][(products \ products') \cap ProcessedByBatch = {}]_vars

Returning ==
  {b \in DOMAIN productBatchQueue :
     /\ productBatchQueue[b].attempt.pc = "process"
     /\ productBatchQueue'[b].state = "completed"}

\* C12: the upsert of the batch worker is idempotent and unique per key: a
\* batch job that processes a product of which the store already holds a
\* document (from an earlier run, an earlier attempt or a concurrent batch
\* job) counts it as an update, a product without a document as a create,
\* and afterwards the store holds the document of every product of the batch.
C12_SecondProcessingIsUpdate ==
  [][\A b \in Returning :
       LET ids == Range(productBatchQueue[b].productIds)
           result == productBatchQueue'[b].result
       IN /\ result.updatedCount = Cardinality(ids \cap products)
          /\ result.createdCount = Cardinality(ids \ products)
          /\ result.errorCount = 0
          /\ ids \subseteq products']_vars

\* the positions of the current detail batch whose getProduct rejects
RejectedInBatch ==
  {i \in DOMAIN CurrentBatch : api.fault[CurrentBatch[i]] = "getProduct"}

\* C13: a per-item failure is isolated: when the fetch of exactly one item of
\* a detail batch throws (and no write fails), every other item of the batch
\* is upserted and the counters move by failed = 1 and
\* processed = batch size - 1.
C13_ItemFailureIsolated ==
  [][(/\ run.pc = "details" /\ MoreDetails
      /\ Cardinality(RejectedInBatch) = 1
      /\ \A i \in DOMAIN CurrentBatch \ RejectedInBatch :
            api.fault[CurrentBatch[i]] = "none")
     => (/\ \A i \in DOMAIN CurrentBatch \ RejectedInBatch :
               /\ store'[CurrentBatch[i]]
                    = Upserted(store[CurrentBatch[i]], run.syncCursor)
               /\ CurrentBatch[i] \in run'.processedIdSet
         /\ run'.failed = run.failed + 1
         /\ Len(run'.processedProductIds)
              = Len(run.processedProductIds) + Len(CurrentBatch) - 1)]_vars

Enumerating ==
  {j \in DOMAIN syncQueue :
     syncQueue[j].state = "waiting" /\ syncQueue'[j].state = "active"}

\* C15: the filter of the product-sync worker: with forceFullSync false and
\* lastSyncedAt = T0 set in the SyncState document, the enumeration is
\* requested with an updatedAtMin that denotes T0; with forceFullSync true or
\* lastSyncedAt null it is requested without lower bound.
C15_LowerBoundIsLastSyncedAt ==
  [][\A j \in Enumerating :
       LET updatedAtMin == syncWorker'.incrementalFilters.updatedAtMin
       IN IF ~syncQueue[j].forceFullSync /\ syncState.lastSyncedAt # Null
            THEN /\ Cardinality(updatedAtMin) = 1
                 /\ \A str \in updatedAtMin : InstantOf(str) = syncState.lastSyncedAt
            ELSE updatedAtMin = {}]_vars

\* an incremental run is enumerating with the lastSyncedAt of an earlier run
\* as lower bound
C15_Witness ==
  /\ syncWorker.pc = "saveBatchJobs"
  /\ ~syncQueue[syncWorker.job].forceFullSync
  /\ syncWorker.incrementalFilters.updatedAtMin # {}
  /\ syncState.lastSyncedAt # Null

\* C16: the Shopify-format conversion preserves the instant: the string
\* returned by formatShopifyDate(d) denotes the same point in time as d, to
\* the second.
C16_ShopifyFormatKeepsInstant ==
  \A str \in shopifyFormat : InstantOf(str) \div 1000 = date \div 1000

\* C17: within one run of fetchData no product id is upserted more than
\* once, although the id generator may yield an id several times: every id
\* occurs at most once in processedProductIds, to which each successful
\* upsert pushes its id.
C17_NoIdProcessedTwice ==
  Cardinality(Range(run.processedProductIds)) = Len(run.processedProductIds)

\* the batch jobs that completed successfully
CompletedBatchJobs ==
  {b \in DOMAIN productBatchQueue : productBatchQueue[b].state = "completed"}

\* the sum of a count over the results the batch jobs in B returned
RECURSIVE ReturnedSum(_, _)
ReturnedSum(B, count) ==
  IF B = {} THEN 0
  ELSE LET b == CHOOSE x \in B : TRUE
       IN productBatchQueue[b].result[count] + ReturnedSum(B \ {b}, count)

\* C18: no counter update of concurrently completing batch jobs is lost: when
\* the one run that was dispatched is finalized and nothing is left to run,
\* productsProcessed, productsCreated and productsUpdated of lastSyncStats
\* are the sums of the counts the successfully completed batch jobs returned.
C18_NoCounterUpdateLost ==
  (/\ Quiescent /\ Cardinality(Dispatched) = 1 /\ Len(calls) = 1
   /\ syncState.exists /\ ~syncState.isInProgress
   /\ syncState.lastSyncedAt # Null)
    => /\ syncState.productsProcessed = ReturnedSum(CompletedBatchJobs, "processedCount")
       /\ syncState.productsCreated = ReturnedSum(CompletedBatchJobs, "createdCount")
       /\ syncState.productsUpdated = ReturnedSum(CompletedBatchJobs, "updatedCount")

C20_FirstSeenAtImmutable ==
  [][\A p \in ProductIds :
       (store[p].exists /\ store'[p].exists)
         => store'[p].first_seen_at = store[p].first_seen_at]_vars

\* C21: a product absent from the enumeration of a full sync is soft-deleted
\* with its row retained: after IntegrationJobWorker.process has completed a
\* full sync whose cleanup ran, every product that was present before the run
\* and absent from its enumeration still has its document, with deleted_at
\* set; and no step removes a document unless purgeDeletedAfterDays is
\* configured and its deleted_at lies at least that many days in the past.
C21_AbsentSoftDeletedRetained ==
  /\ [](( /\ jobWorker.pc = "completed"
          /\ CleanupRuns /\ ~api.updateManyFails)
        => \A p \in AbsentFromEnumeration :
             store[p].exists /\ store[p].deleted_at # Null)
  /\ [][\A p \in ProductIds :
          (store[p].exists /\ ~store'[p].exists)
            => /\ config.purgeDeletedAfterDays # 0
               /\ store[p].deleted_at # Null
               /\ store[p].deleted_at <= run.syncCursor - config.purgeDeletedAfterDays]_vars

\* C22: a queue-based run with no lower-bound time filter reconciles
\* deletions: whenever the product-sync worker enumerates without
\* updatedAtMin (forceFullSync is true, or lastSyncedAt is null), it snapshots
\* the productIds of the store into lastSyncStats.existingProductIds, from
\* which the products the run did not process are removed at its end.
C22_UnfilteredRunSnapshots ==
  [][\A j \in Enumerating :
       syncWorker'.incrementalFilters.updatedAtMin = {}
         => /\ syncWorker'.doc.existingProductIds = products
            /\ syncState'.existingProductIds = products]_vars

\* the executions for which cancelExecution has returned true
Cancelled == {e \in DOMAIN executions : executions[e].cancel = "true"}

\* C23: cancellation is honoured: once cancelExecution has succeeded for an
\* execution, its status stays CANCELLED (processExecution never sets it to
\* RUNNING, COMPLETED or FAILED), and a cancelled execution whose queue job
\* had not started is not processed.
C23_CancelledStaysCancelled ==
  /\ [](\A e \in Cancelled : executions[e].status = "CANCELLED")
  /\ [][\A e \in Cancelled :
          executions[e].queue = "waiting" => executions'[e].queue # "active"]_vars

\* this step wrote the timeout message of cleanupStuckSyncJobs
StuckReset ==
  /\ syncState.exists
  /\ syncState'.lastSyncError = [kind |-> "stuck-timeout", n |-> 0]
  /\ syncState.lastSyncError # syncState'.lastSyncError

\* C24: cleanupStuckSyncJobs force-finalizes exactly the stale runs as
\* failed: the SyncState it resets was in progress with a startedAt more than
\* one hour old, and ends with isInProgress = false, the timeout message in
\* lastSyncError, its pending batches counted as failed (pending = 0) and
\* lastSyncedAt unchanged.
C24_StuckRunsForceFinalized ==
  [][StuckReset =>
       /\ syncState.isInProgress /\ IsStale(syncState)
       /\ ~syncState'.isInProgress
       /\ syncState'.lastSyncedAt = syncState.lastSyncedAt
       /\ IsObjectFormat(syncState.batchJobs)
            => /\ syncState'.batchJobs.pending = 0
               /\ syncState'.batchJobs.failed =
                    syncState.batchJobs.failed + syncState.batchJobs.pending]_vars

\* C25: saving a checkpoint never fails the caller's main flow: no call of
\* saveCheckpoint throws to its caller, also when the write fails, and a call
\* leaves the checkpoints saved earlier as they were.
C25_SaveCheckpointNeverThrows ==
  /\ [](checkpoints.outcome # "threw")
  /\ [][SubSeq(checkpoints'.collection, 1, Len(checkpoints.collection))
          = checkpoints.collection]_vars

\* C26: when a run of IntegrationJobWorker.process fails part-way (the
\* connector throws after it has received product ids), the persisted
\* JobState has status FAILED, its lastSyncTime is the one the job had before
\* the run, and its totalRecords, recordsSucceeded and recordsFailed are the
\* ones the SyncContext of the run had recorded when it failed.
C26_PartialCountersPreserved ==
  (jobWorker.pc = "failed" /\ run.totalRecords > 0)
    => /\ jobWorker.doc.status = "FAILED"
       /\ jobWorker.doc.lastSyncTime =
            (IF config.isFullSync THEN Null ELSE CompletedJobState.lastSyncTime)
       /\ jobWorker.doc.totalRecords = RunMetrics.totalRecords
       /\ jobWorker.doc.recordsSucceeded = RunMetrics.recordsSucceeded
       /\ jobWorker.doc.recordsFailed = RunMetrics.recordsFailed

\* C27: at the end of a run of fetchData the statistics of the SyncContext
\* count the outcome: recordsSucceeded is the number of products upserted
\* (created + updated) and recordsFailed the number of products that
\* fetchData counted as failed (their fetch or their save failed).
C27_StatsCountOutcome ==
  run.pc = "done"
    => /\ run.recordsSucceeded = run.created + run.updated
       /\ run.recordsFailed = run.failed

\* C28: the progress percentage is clamped: after every call of
\* recordTotalCount, recordSuccess, recordFailure and updateProgress that a
\* run of fetchData makes, the progress of its SyncContextImpl lies between
\* 0 and 100 inclusive.
C28_ProgressWithinBounds ==
  0 <= run.progress /\ run.progress <= 100

\* the while loop over the ids of a page has ended and the ids fetched so
\* far exceed 2 x estimatedMaxProducts, or the duplicates estimatedMaxProducts
GuardExceeded ==
  /\ run.pc = "details" /\ ~MoreDetails
  /\ \/ run.totalFetched > 2 * config.estimatedMaxProducts
     \/ run.duplicateCount > config.estimatedMaxProducts

\* C29: the runaway guard: once, after processing a page, the ids fetched
\* (duplicates included) exceed 2 x estimatedMaxProducts or the duplicates
\* exceed estimatedMaxProducts, fetchData leaves the loop over the pages; from
\* then on it requests no page from the id generator, and it goes on to its
\* end without throwing, with the products it has processed.
C29_RunawayGuardStopsEnumeration ==
  /\ [][GuardExceeded => run'.pc = "cleanup"]_vars
  /\ [][run.pc \in {"cleanup", "done"}
         => /\ run'.pc \in {"cleanup", "done"}
            /\ run'.page = run.page
            /\ run'.processedProductIds = run.processedProductIds]_vars
  /\ GuardExceeded ~> (run.pc = "done")

\* a run has ended on the failsafe after its second page, with a product
\* processed and the third page never requested
C29_Witness ==
  /\ run.pc = "done"
  /\ run.page = 2 /\ run.page < Len(api.pages)
  /\ run.totalFetched > 2 * config.estimatedMaxProducts
  /\ Len(run.processedProductIds) = 1
  /\ config.maxProducts = Infinity

\* the product ids of a page as the generator yields them
PageIds(page) == [i \in 1..Len(page.products) |-> <<ToString(page.products[i])>>]

\* the pages of the API answered so far
Answered == Len(generator.batches)

\* C30: getProductIdsGenerator paginates by cursor: it yields one batch of
\* ids per page answered, in the order of the pages; its first request has
\* no cursor and every later one carries the endCursor of the page before;
\* it requests no page after a page whose hasNextPage is false, ends only
\* after such a page, and once resumed after such a page it does end.
C30_PaginatesByCursor ==
  /\ [](/\ Answered <= Len(generator.server)
        /\ \A k \in 1..Answered :
             generator.batches[k] = PageIds(generator.server[k])
        /\ Len(generator.requests) \in {Answered, Answered + 1}
        /\ \A k \in 1..Len(generator.requests) :
             generator.requests[k] =
               IF k = 1 THEN Null ELSE generator.server[k - 1].pageInfo.endCursor
        /\ \A k \in 1..(Len(generator.requests) - 1) :
             generator.server[k].pageInfo.hasNextPage
        /\ generator.pc = "done"
             => /\ Answered >= 1 /\ Len(generator.requests) = Answered
                /\ ~generator.server[Answered].pageInfo.hasNextPage)
  /\ [][generator.pc = "done" => generator'.pc = "done"]_vars
  /\ (/\ generator.pc = "loop" /\ Answered >= 1
      /\ ~generator.server[Answered].pageInfo.hasNextPage)
       ~> (generator.pc = "done")

\* the generator has ended after three pages, the third being the first
\* whose hasNextPage is false, with cursors that differ from page to page
C30_Witness ==
  /\ generator.pc = "done"
  /\ Answered = 3
  /\ generator.requests = <<Null, 1, 2>>
  /\ Len(generator.batches[2]) = 2
  /\ generator.batches[2][1] # generator.batches[2][2]

\* the executions created as incremental after an execution had COMPLETED,
\* for which processExecution has called the connector
IncrementalCalled ==
  {e \in DOMAIN executions :
     /\ executions[e].syncType = "incremental"
     /\ executions[e].connector.called
     /\ executions[e].connector.lastSyncCursor # Null}

\* C31: an execution created with syncType "incremental" when an earlier
\* execution of the job is COMPLETED is run by processExecution as an
\* incremental sync: the connector filters by the cursor of the last
\* successful execution (updatedAtMin) and marks no deletions.
C31_IncrementalExecutionRunsIncremental ==
  \A e \in IncrementalCalled :
     /\ executions[e].connector.updatedAtMin = executions[e].connector.lastSyncCursor
     /\ ~executions[e].connector.needsVerification

\* C32: pruneOldJobs keeps the incremental watermark: for every
\* (sourceType, destinationType) pair, the lastSyncTime createIncrementalJob
\* would use is the same after pruneOldJobs(daysToKeep) as before it,
\* whatever the ages of the JobState documents.
C32_PruneKeepsWatermark ==
  [][(jobStates'.docs \subseteq jobStates.docs /\ jobStates'.docs # jobStates.docs)
       => \A destinationType \in DestinationTypes :
            PreviousSyncTime(jobStates'.docs, destinationType)
              = PreviousSyncTime(jobStates.docs, destinationType)]_vars

\* every run queued so far enumerated zero product ids and nothing of it is
\* left to do: the queueProductSync calls have returned, every product-sync
\* job is completed, the worker is idle and there is no batch job
ZeroRunsSettled ==
  /\ shop.catalog = {}
  /\ syncQueue # <<>>
  /\ \A j \in DOMAIN syncQueue : syncQueue[j].state = "completed"
  /\ \A c \in DOMAIN calls : calls[c].pc = "done"
  /\ syncWorker = IdleSyncWorker
  /\ productBatchQueue = <<>>

\* C33: a queue-based run whose enumeration returns zero product ids still
\* finalizes: once its product-sync job has completed and nothing of the run
\* is left to do, SyncState.isInProgress is false and the run is recorded as
\* completed (completedAt is set), before any stale-run timeout.
C33_EmptyRunFinalizes ==
  ZeroRunsSettled
    => /\ ~syncState.isInProgress
       /\ syncState.completedAt # Null

\* this step starts a run with a lower bound, after a run that finalized
IncrementalRunStarts ==
  /\ ~upstream.isInProgress /\ upstream'.isInProgress
  /\ upstream'.updatedAtMin # Null

\* C34: no upstream modification is missed by successive successful syncs:
\* a product modified in Shopify while a run was in progress, after that run
\* had fetched it, is enumerated by the next incremental run (whose lower
\* bound is the lastSyncedAt recorded when the earlier run finalized) unless
\* its Product document already holds that modification.
C34_LateModificationRefetched ==
  [][IncrementalRunStarts
       => \A p \in upstream.modifiedAfterFetch :
            upstream.shopifyUpdatedAt[p] # upstream.updatedAt[p]
              => p \in upstream'.productIds]_vars

\* what a run records in the SyncState: its batch counters, its item
\* counters, lastSyncedAt and its finalization
RunRecord(doc) ==
  <<doc.batchJobs, doc.productsProcessed, doc.productsCreated,
    doc.productsUpdated, doc.productsDeleted, doc.lastSyncedAt,
    doc.isInProgress, doc.completedAt, doc.totalSyncs>>

\* C35: batch events are applied only to the run that dispatched the batch:
\* a step of the batch worker or of a batch event handler for a batch job of
\* a run that was reset as stale changes neither the batch counters, the
\* item counters, lastSyncedAt nor the finalization of the later run.
C35_OrphanedBatchLeavesLaterRun ==
  [][\A b \in DOMAIN productBatchQueue :
       (/\ productBatchQueue[b].orphaned
        /\ productBatchQueue'[b] # productBatchQueue[b])
         => RunRecord(syncState') = RunRecord(syncState)]_vars

\* this step starts a retry of a product-sync job: an attempt of a job of
\* which an earlier attempt failed
RetryStarts ==
  \E j \in DOMAIN syncQueue :
     /\ syncQueue[j].attemptsMade >= 1
     /\ syncQueue[j].state = "waiting" /\ syncQueue'[j].state = "active"

\* C36: SyncState.isInProgress changes from false to true only when
\* queueProductSync starts a new run: after an attempt of a product-sync job
\* has failed and set isInProgress = false, a retry of that job does not set
\* it back to true.
C36_RetryLeavesNotInProgress ==
  [][(syncState.exists /\ ~syncState.isInProgress /\ RetryStarts)
       => ~syncState'.isInProgress]_vars

\* the product-sync worker has assigned lastSyncStats.batchJobs and saved for
\* the run that was queued last, and no product-sync job is left to run
InitialisedBySyncWorker ==
  /\ syncState.exists
  /\ Len(syncQueue) > 0
  /\ syncQueue[Len(syncQueue)].state = "completed"
  /\ \A j \in DOMAIN syncQueue : syncQueue[j].state \in {"completed", "failed"}

\* C37: in every SyncState of a run whose batch counters were initialised by
\* the product-sync worker, batchJobs.pending is not negative and
\* completed + failed + pending equals total.
C37_BatchCountersConsistent ==
  InitialisedBySyncWorker
    => /\ IsObjectFormat(syncState.batchJobs)
       /\ syncState.batchJobs.pending >= 0
       /\ syncState.batchJobs.completed + syncState.batchJobs.failed
            + syncState.batchJobs.pending = syncState.batchJobs.total

\* every task of the job has finally completed or failed, and no call of
\* updateProductStatus is in flight
AllTasksFinal ==
  /\ tracker.tasks # <<>>
  /\ \A p \in DOMAIN tracker.tasks :
       /\ tracker.tasks[p].state \in {"completed", "failed"}
       /\ tracker.tasks[p].queued = NoCall
       /\ tracker.tasks[p].handler = NoCall

\* the tasks of the job whose final state is state
TasksIn(state) == {p \in DOMAIN tracker.tasks : tracker.tasks[p].state = state}

\* C38: once every task of a job has finally completed or failed, the Job
\* document counts in completedProducts the tasks that completed and in
\* failedProducts the tasks that failed, and its status is "completed" when
\* no task failed and "failed" otherwise, however the updateProductStatus
\* calls interleaved.
C38_CountersMatchOutcomes ==
  AllTasksFinal
    => /\ tracker.job.completedProducts = Cardinality(TasksIn("completed"))
       /\ tracker.job.failedProducts = Cardinality(TasksIn("failed"))
       /\ tracker.job.status =
            IF TasksIn("failed") = {} THEN "completed" ELSE "failed"

====
